---- MODULE Spec2Model ----
(***************************************************************************)
(* A model of the z/OSMF client library: the job manager (pkg/jobs), the   *)
(* dataset manager (pkg/datasets) and the two loops that span several      *)
(* round trips, WaitForJobCompletion and uploadWithRetry.                  *)
(*                                                                         *)
(* One client call is active at a time (the library is synchronous).  The  *)
(* server is the environment: every HTTP round trip receives a response    *)
(* chosen nondeterministically from a small set, and every request sent    *)
(* and every sleep taken by the current call is appended to events.        *)
(* Strings are TLA+ strings handled with Len, SubSeq and \o.               *)
(***************************************************************************)
EXTENDS Integers, Sequences, FiniteSets, TLC

VARIABLES
    op,      \* name of the client operation called last ("none" before any)
    args,    \* its arguments
    pc,      \* "idle", "done", "panicked", or the loop position of a running call
    events,  \* HTTP round trips and sleeps of the current call, in order
    result,  \* [err, val] returned by the call once pc = "done"
    local,   \* local variables of a call that is still looping
    now,     \* the wall clock read by time.Now / time.Since
    session, \* the session in use: the struct Session that NewSession returned
    server,  \* what a storing server holds: request path -> body of the last PUT
    uploaded \* what the caller has uploaded: <<dataset, member>> -> content

vars == <<op, args, pc, events, result, local, now, session, server, uploaded>>

-----------------------------------------------------------------------------
(* Bounds of the model *)

MaxStrLen == 3      \* identifiers are all strings up to this length
MaxJobs == 2        \* longest job list a response carries
MaxSpool == 2       \* longest spool file list a response carries
MaxPolls == 3       \* status fetches one WaitForJobCompletion call may make
MaxTimeout == 2     \* largest timeout passed to WaitForJobCompletion
MaxPollInterval == 1 \* largest poll interval passed to WaitForJobCompletion

-----------------------------------------------------------------------------
(* Strings: the functions of package strings, strconv and net/url used *)

Char(s, i) == SubSeq(s, i, i)

Contains(s, sub) ==
    \E i \in 1..(Len(s) - Len(sub) + 1) : SubSeq(s, i, i + Len(sub) - 1) = sub

HasPrefix(s, p) == Len(s) >= Len(p) /\ SubSeq(s, 1, Len(p)) = p

HasSuffix(s, p) == Len(s) >= Len(p) /\ SubSeq(s, Len(s) - Len(p) + 1, Len(s)) = p

UpperLetters == <<"A", "B", "C", "D", "E", "F", "G", "H", "I", "J", "K", "L", "M",
                  "N", "O", "P", "Q", "R", "S", "T", "U", "V", "W", "X", "Y", "Z">>

LowerLetters == <<"a", "b", "c", "d", "e", "f", "g", "h", "i", "j", "k", "l", "m",
                  "n", "o", "p", "q", "r", "s", "t", "u", "v", "w", "x", "y", "z">>

Digits == <<"0", "1", "2", "3", "4", "5", "6", "7", "8", "9">>

\* The letters and digits as sets, and unicode.ToUpper / ToLower as tables
UpperSet == {UpperLetters[i] : i \in 1..26}

LowerSet == {LowerLetters[i] : i \in 1..26}

DigitSet == {Digits[i] : i \in 1..10}

ToUpperTable ==
    [c \in LowerSet |-> UpperLetters[CHOOSE i \in 1..26 : LowerLetters[i] = c]]

ToLowerTable ==
    [c \in UpperSet |-> LowerLetters[CHOOSE i \in 1..26 : UpperLetters[i] = c]]

IsUpper(c) == c \in UpperSet

IsLower(c) == c \in LowerSet

IsDigit(c) == c \in DigitSet

ToUpperChar(c) == IF c \in LowerSet THEN ToUpperTable[c] ELSE c

ToLowerChar(c) == IF c \in UpperSet THEN ToLowerTable[c] ELSE c

RECURSIVE ToUpper(_)
ToUpper(s) ==
    IF s = "" THEN ""
    ELSE IF Len(s) = 1 THEN ToUpperChar(s)
    ELSE ToUpper(SubSeq(s, 1, Len(s) \div 2)) \o ToUpper(SubSeq(s, (Len(s) \div 2) + 1, Len(s)))

RECURSIVE ToLower(_)
ToLower(s) ==
    IF s = "" THEN ""
    ELSE IF Len(s) = 1 THEN ToLowerChar(s)
    ELSE ToLower(SubSeq(s, 1, Len(s) \div 2)) \o ToLower(SubSeq(s, (Len(s) \div 2) + 1, Len(s)))

\* strconv.Itoa / the %d verb
RECURSIVE Itoa(_)
Itoa(n) ==
    IF n < 0 THEN "-" \o Itoa(0 - n)
    ELSE IF n < 10 THEN Digits[n + 1]
    ELSE Itoa(n \div 10) \o Digits[(n % 10) + 1]

\* strings.Split(s, sep) for a one-character separator: the fields, in order
RECURSIVE Split(_, _)
Split(s, sep) ==
    IF \A i \in 1..Len(s) : Char(s, i) # sep THEN <<s>>
    ELSE LET k == CHOOSE i \in 1..Len(s) :
                     Char(s, i) = sep /\ \A j \in 1..(i - 1) : Char(s, j) # sep
         IN  <<SubSeq(s, 1, k - 1)>> \o Split(SubSeq(s, k + 1, Len(s)), sep)

\* url.PathEscape: letters, digits and - _ . ~ $ & + = : @ stay, the rest is %XX
PathEscapeChar(c) ==
    IF IsUpper(c) \/ IsLower(c) \/ IsDigit(c)
       \/ c \in {"-", "_", ".", "~", "$", "&", "+", "=", ":", "@"} THEN c
    ELSE IF c = "#" THEN "%23"
    ELSE IF c = "/" THEN "%2F"
    ELSE IF c = " " THEN "%20"
    ELSE IF c = "(" THEN "%28"
    ELSE IF c = ")" THEN "%29"
    ELSE IF c = "*" THEN "%2A"
    ELSE "%3F"

RECURSIVE PathEscape(_)
PathEscape(s) ==
    IF s = "" THEN "" ELSE PathEscapeChar(Char(s, 1)) \o PathEscape(SubSeq(s, 2, Len(s)))

\* url.QueryEscape as url.Values.Encode applies it: letters, digits, - _ . ~ stay
QueryEscapeChar(c) ==
    IF IsUpper(c) \/ IsLower(c) \/ IsDigit(c) \/ c \in {"-", "_", ".", "~"} THEN c
    ELSE IF c = ":" THEN "%3A"
    ELSE IF c = "#" THEN "%23"
    ELSE IF c = "$" THEN "%24"
    ELSE IF c = "@" THEN "%40"
    ELSE IF c = "*" THEN "%2A"
    ELSE IF c = " " THEN "+"
    ELSE "%3F"

RECURSIVE QueryEscape(_)
QueryEscape(s) ==
    IF s = "" THEN "" ELSE QueryEscapeChar(Char(s, 1)) \o QueryEscape(SubSeq(s, 2, Len(s)))

\* All strings over the characters cs of length exactly n / at most n
RECURSIVE StringsOfLen(_, _)
StringsOfLen(cs, n) ==
    IF n = 0 THEN {""} ELSE {c \o s : c \in cs, s \in StringsOfLen(cs, n - 1)}

StringsUpTo(cs, n) == UNION {StringsOfLen(cs, k) : k \in 0..n}

-----------------------------------------------------------------------------
(* Go values: errors, results, JSON documents *)

NilErr == [nil |-> TRUE, text |-> ""]

Errorf(text) == [nil |-> FALSE, text |-> text]

NilVal == [t |-> "nil"]

StrVal(s) == [t |-> "string", s |-> s]

JobVal(j) == [t |-> "job", job |-> j]

JobListVal(js) == [t |-> "joblist", jobs |-> js]

SpoolVal(fs) == [t |-> "spoolfiles", files |-> fs]

MapVal(m) == [t |-> "map", m |-> m]

\* What a function hands back: its error, its value, the round trips it made
Ret(e, v, evs) == [err |-> e, val |-> v, events |-> evs]

\* Parsed JSON documents.  An object carries its members as a record.
JNull == [kind |-> "null"]

JInvalid == [kind |-> "invalid"]

JObject(members) == [kind |-> "object", members |-> members]

JArray(items) == [kind |-> "array", items |-> items]

NoMembers == [x \in {} |-> ""]

\* A response body: the bytes received and the JSON document they spell
Body(raw, json) == [raw |-> raw, json |-> json]

\* A round trip's outcome: a transport failure (neterr # ""), or status + body
NetFail(text) == [neterr |-> text, status |-> 0, body |-> Body("", JInvalid)]

Http(status, body) == [neterr |-> "", status |-> status, body |-> body]

\* One logged round trip / one logged sleep
\* (ctype: the Content-Type the operation sets itself, body: the request body)
TripWith(m, u, c, b, r) ==
    [e |-> "http", method |-> m, url |-> u, ctype |-> c, body |-> b, resp |-> r]

Trip(method, url, resp) == TripWith(method, url, "", "", resp)

Slept(d) == [e |-> "sleep", d |-> d]

IsTrip(ev) == ev.e = "http"

IsSleep(ev) == ev.e = "sleep"

BaseURL == "https://zos/zosmf"

\* The text of the *url.Error that http.Client.Do returns
Title(method) == Char(method, 1) \o ToLower(SubSeq(method, 2, Len(method)))

DoError(method, url, resp) ==
    Title(method) \o " \"" \o BaseURL \o url \o "\": " \o resp.neterr

RequestFailed(method, url, resp) ==
    Errorf("failed to make request: " \o DoError(method, url, resp))

StatusFailed(resp) ==
    Errorf("API request failed with status " \o Itoa(resp.status) \o ": " \o resp.body.raw)

StatusOK == 200
StatusCreated == 201
StatusAccepted == 202
StatusNoContent == 204
StatusNotFound == 404

-----------------------------------------------------------------------------
(* encoding/json as the job manager uses it *)

HasMember(json, name) == name \in DOMAIN json.members

\* A string member of an object; a member that is absent leaves the zero value
StringMember(json, name) == IF HasMember(json, name) THEN json.members[name] ELSE ""

\* The struct Job, reduced to the fields the library reads
Job(jobID, jobName, owner, status) ==
    [JobID |-> jobID, JobName |-> jobName, Owner |-> owner, Status |-> status]

ZeroJob == Job("", "", "", "")

\* Unmarshal of one JSON value into a Job: an object fills the fields it names,
\* null leaves the zero value, anything else is an error
JobFromJSON(json) ==
    IF json.kind = "object"
    THEN [ok |-> TRUE,
          job |-> Job(StringMember(json, "jobid"), StringMember(json, "jobname"),
                      StringMember(json, "owner"), StringMember(json, "status"))]
    ELSE IF json.kind = "null" THEN [ok |-> TRUE, job |-> ZeroJob]
    ELSE [ok |-> FALSE, job |-> ZeroJob]

\* Unmarshal of a JSON value into []Job
JobsFromJSON(json) ==
    IF json.kind = "array"
    THEN [ok |-> \A i \in 1..Len(json.items) : JobFromJSON(json.items[i]).ok,
          jobs |-> [i \in 1..Len(json.items) |-> JobFromJSON(json.items[i]).job]]
    ELSE IF json.kind = "null" THEN [ok |-> TRUE, jobs |-> <<>>]
    ELSE [ok |-> FALSE, jobs |-> <<>>]

\* Unmarshal of a JSON value into JobList{Jobs []Job `json:"jobs"`}
JobListFromJSON(json) ==
    IF json.kind = "object"
    THEN IF HasMember(json, "jobs") THEN JobsFromJSON(json.members["jobs"])
         ELSE [ok |-> TRUE, jobs |-> <<>>]
    ELSE IF json.kind = "null" THEN [ok |-> TRUE, jobs |-> <<>>]
    ELSE [ok |-> FALSE, jobs |-> <<>>]

\* The struct SpoolFile, reduced to id and DD name
SpoolFile(id, ddName) == [ID |-> id, DDName |-> ddName]

SpoolFilesFromJSON(json) ==
    IF json.kind = "array"
    THEN [ok |-> \A i \in 1..Len(json.items) : json.items[i].kind = "object",
          files |-> [i \in 1..Len(json.items) |->
                        IF json.items[i].kind = "object"
                        THEN SpoolFile(IF HasMember(json.items[i], "id")
                                       THEN json.items[i].members["id"] ELSE 0,
                                       StringMember(json.items[i], "ddname"))
                        ELSE SpoolFile(0, "")]]
    ELSE IF json.kind = "null" THEN [ok |-> TRUE, files |-> <<>>]
    ELSE [ok |-> FALSE, files |-> <<>>]

\* The text of the error encoding/json reports for a document it cannot decode
DecodeErrorText(body, goType) ==
    IF body.raw = "" THEN "EOF"
    ELSE IF body.json.kind = "invalid"
    THEN "invalid character '" \o Char(body.raw, 1) \o "' looking for beginning of value"
    ELSE "json: cannot unmarshal " \o body.json.kind \o " into Go value of type " \o goType

DecodeFailed(body, goType) ==
    Errorf("failed to decode response: " \o DecodeErrorText(body, goType))

-----------------------------------------------------------------------------
(* pkg/jobs: the job manager *)

JobsEndpoint == "/restjobs/jobs"

JobByNameIDEndpoint(jobName, jobID) == "/restjobs/jobs/" \o jobName \o "/" \o jobID

JobByCorrelatorEndpoint(correlator) == "/restjobs/jobs/" \o correlator

JobFilesEndpoint == "/files"

CancelEndpoint == "/cancel"

PurgeEndpoint == "/purge"

JobFilesByIDEndpoint(id) == "/files/" \o id \o "/records"

\* The struct JobFilter; a nil *JobFilter has nil = TRUE
JobFilter(owner, prefix, maxJobs, jobID, jobName, status, userCorrelator) ==
    [nil |-> FALSE, Owner |-> owner, Prefix |-> prefix, MaxJobs |-> maxJobs,
     JobID |-> jobID, JobName |-> jobName, Status |-> status,
     UserCorrelator |-> userCorrelator]

NilFilter == [JobFilter("", "", 0, "", "", "", "") EXCEPT !.nil = TRUE]

RECURSIVE JoinQuery(_)
JoinQuery(pairs) ==
    IF pairs = <<>> THEN ""
    ELSE IF Len(pairs) = 1 THEN pairs[1]
    ELSE pairs[1] \o "&" \o JoinQuery(Tail(pairs))

\* The query string of ListJobs: url.Values.Encode writes the keys in sorted order
ListJobsQuery(filter) ==
    LET pairs ==
            IF filter.nil THEN <<>>
            ELSE (IF filter.JobID # "" THEN <<"jobid=" \o QueryEscape(filter.JobID)>> ELSE <<>>)
              \o (IF filter.JobName # "" THEN <<"jobname=" \o QueryEscape(filter.JobName)>> ELSE <<>>)
              \o (IF filter.MaxJobs > 0 THEN <<"max-jobs=" \o Itoa(filter.MaxJobs)>> ELSE <<>>)
              \o (IF filter.Owner # "" THEN <<"owner=" \o QueryEscape(filter.Owner)>> ELSE <<>>)
              \o (IF filter.Prefix # "" THEN <<"prefix=" \o QueryEscape(filter.Prefix)>> ELSE <<>>)
              \o (IF filter.Status # "" THEN <<"status=" \o QueryEscape(filter.Status)>> ELSE <<>>)
              \o (IF filter.UserCorrelator # ""
                  THEN <<"user-correlator=" \o QueryEscape(filter.UserCorrelator)>> ELSE <<>>)
    IN  IF pairs = <<>> THEN "" ELSE "?" \o JoinQuery(pairs)

\* The acceptance test of the wrapper-object parse in ListJobs
ListJobsAcceptsObject(first, raw) == first.ok /\ (Len(first.jobs) > 0 \/ raw = "{}")

\* ListJobs once its URL is built
ListJobsAt(url, resp) ==
    LET trip == <<Trip("GET", url, resp)>>
        first == JobListFromJSON(resp.body.json)
        second == JobsFromJSON(resp.body.json)
    IN  IF resp.neterr # "" THEN Ret(RequestFailed("GET", url, resp), NilVal, trip)
        ELSE IF resp.status # StatusOK THEN Ret(StatusFailed(resp), NilVal, trip)
        ELSE IF ListJobsAcceptsObject(first, resp.body.raw)
        THEN Ret(NilErr, JobListVal(first.jobs), trip)
        ELSE IF second.ok THEN Ret(NilErr, JobListVal(second.jobs), trip)
        ELSE Ret(Errorf("failed to decode response: " \o resp.body.raw), NilVal, trip)

ListJobs(filter, resp) == ListJobsAt(JobsEndpoint \o ListJobsQuery(filter), resp)

\* parseCorrelator: the number of fields a correlator must split into
FieldsAtLeastTwo(parts) == Len(parts) >= 2
CorrelatorFieldsOK(parts) == Len(parts) = 2

parseCorrelator(correlator) ==
    LET parts == Split(correlator, ":")
    IN  IF ~CorrelatorFieldsOK(parts)
        THEN [jobName |-> "", jobID |-> "",
              err |-> Errorf("correlator must be in format 'jobname:jobid', got: "
                             \o correlator)]
        ELSE [jobName |-> parts[1], jobID |-> parts[2], err |-> NilErr]

InvalidCorrelator(err) == Errorf("invalid correlator format: " \o err.text)

GetJobByNameID(jobName, jobID, resp) ==
    LET url == JobByNameIDEndpoint(PathEscape(jobName), PathEscape(jobID))
        trip == <<Trip("GET", url, resp)>>
        dec == JobFromJSON(resp.body.json)
    IN  IF resp.neterr # "" THEN Ret(RequestFailed("GET", url, resp), NilVal, trip)
        ELSE IF resp.status # StatusOK THEN Ret(StatusFailed(resp), NilVal, trip)
        ELSE IF ~dec.ok THEN Ret(DecodeFailed(resp.body, "jobs.Job"), NilVal, trip)
        ELSE Ret(NilErr, JobVal(dec.job), trip)

LastJobByID(jobs, id) ==
    IF \E i \in 1..Len(jobs) : jobs[i].JobID = id
    THEN CHOOSE i \in 1..Len(jobs) :
             jobs[i].JobID = id /\ \A j \in (i + 1)..Len(jobs) : jobs[j].JobID # id
    ELSE 0

\* The first index of jobs whose JobID is id, 0 when there is none
FindJobByID(jobs, id) ==
    IF \E i \in 1..Len(jobs) : jobs[i].JobID = id
    THEN CHOOSE i \in 1..Len(jobs) :
             jobs[i].JobID = id /\ \A j \in 1..(i - 1) : jobs[j].JobID # id
    ELSE 0

\* The filter of a lookup by bare job id
ByIDFilter(id) == JobFilter("", "", 100, id, "", "", "")

\* What a function returns that made the round trips evs before its last call
After(evs, ret) == Ret(ret.err, ret.val, evs \o ret.events)

\* GetJob with a correlator, once it is parsed
GetJobParsed(p, resp) ==
    IF ~p.err.nil THEN Ret(InvalidCorrelator(p.err), NilVal, <<>>)
    ELSE GetJobByNameID(p.jobName, p.jobID, resp)

\* GetJob with a bare id, once the job is looked for in the list (k = 0: not there)
GetJobFound(correlator, list, k, resp) ==
    IF k = 0
    THEN Ret(Errorf("job with ID " \o correlator \o " not found"), NilVal, list.events)
    ELSE After(list.events,
               GetJobByNameID(list.val.jobs[k].JobName, list.val.jobs[k].JobID, resp))

\* GetJob with a bare id, once the list request has returned
GetJobListed(correlator, list, resp) ==
    IF ~list.err.nil
    THEN Ret(Errorf("failed to find job with ID " \o correlator \o ": " \o list.err.text),
             NilVal, list.events)
    ELSE GetJobFound(correlator, list, FindJobByID(list.val.jobs, correlator), resp)

\* GetJob; rs are the responses of the round trips it makes, in order
GetJob(correlator, rs) ==
    IF Contains(correlator, ":") THEN GetJobParsed(parseCorrelator(correlator), rs[1])
    ELSE GetJobListed(correlator, ListJobs(ByIDFilter(correlator), rs[1]), rs[2])

StatusAlwaysOutput(get) ==
    IF ~get.err.nil THEN Ret(get.err, StrVal(""), get.events)
    ELSE Ret(NilErr, StrVal("OUTPUT"), get.events)

\* GetJobStatus once GetJob has returned
StatusOf(get) ==
    IF ~get.err.nil THEN Ret(get.err, StrVal(""), get.events)
    ELSE Ret(NilErr, StrVal(get.val.job.Status), get.events)

GetJobStatus(correlator, rs) == StatusOf(GetJob(correlator, rs))

\* The struct SubmitJobRequest
SubmitJobRequest(statement, dataSet, localFile, directory, extension, volume) ==
    [JobStatement |-> statement, JobDataSet |-> dataSet, JobLocalFile |-> localFile,
     Directory |-> directory, Extension |-> extension, Volume |-> volume]

\* json.Marshal of a map of strings: the keys in sorted order
RECURSIVE JoinComma(_)
JoinComma(parts) ==
    IF parts = <<>> THEN ""
    ELSE IF Len(parts) = 1 THEN parts[1]
    ELSE parts[1] \o "," \o JoinComma(Tail(parts))

JSONPair(key, value) == "\"" \o key \o "\":\"" \o value \o "\""

\* Which source SubmitJob sends: the first one set, in the order of its if-chain
SubmitSource(request) ==
    IF request.JobStatement # "" THEN "statement"
    ELSE IF request.JobDataSet # "" THEN "dataset"
    ELSE IF request.JobLocalFile # "" THEN "localfile"
    ELSE "none"

SubmitBody(request) ==
    IF SubmitSource(request) = "statement" THEN request.JobStatement
    ELSE IF SubmitSource(request) = "dataset"
    THEN "{" \o JoinComma(
             <<JSONPair("file", IF HasPrefix(request.JobDataSet, "//")
                                THEN request.JobDataSet
                                ELSE "//" \o request.JobDataSet)>>
             \o (IF request.Volume # "" THEN <<JSONPair("volume", request.Volume)>>
                 ELSE <<>>)) \o "}"
    ELSE "{" \o JoinComma(
             (IF request.Directory # "" THEN <<JSONPair("directory", request.Directory)>>
              ELSE <<>>)
             \o (IF request.Extension # "" THEN <<JSONPair("extension", request.Extension)>>
                 ELSE <<>>)
             \o <<JSONPair("file", request.JobLocalFile)>>) \o "}"

AcceptsNoContentToo(status) == status \in {StatusCreated, StatusOK, StatusAccepted, StatusNoContent}
SubmitAccepts(status) == status \in {StatusCreated, StatusOK, StatusAccepted}

\* An operation that sends one request without body and decodes nothing
NoContentOK(status) == status \in {StatusOK, StatusNoContent}

DeleteJobByNameID(jobName, jobID, resp) ==
    LET url == JobByNameIDEndpoint(PathEscape(jobName), PathEscape(jobID))
        trip == <<Trip("DELETE", url, resp)>>
    IN  IF resp.neterr # "" THEN Ret(RequestFailed("DELETE", url, resp), NilVal, trip)
        ELSE IF ~NoContentOK(resp.status) THEN Ret(StatusFailed(resp), NilVal, trip)
        ELSE Ret(NilErr, NilVal, trip)

GetSpoolFiles(jobName, jobID, resp) ==
    LET url == JobByNameIDEndpoint(PathEscape(jobName), PathEscape(jobID))
               \o JobFilesEndpoint
        trip == <<Trip("GET", url, resp)>>
        dec == SpoolFilesFromJSON(resp.body.json)
    IN  IF resp.neterr # "" THEN Ret(RequestFailed("GET", url, resp), NilVal, trip)
        ELSE IF resp.status # StatusOK THEN Ret(StatusFailed(resp), NilVal, trip)
        ELSE IF ~dec.ok THEN Ret(DecodeFailed(resp.body, "[]jobs.SpoolFile"), NilVal, trip)
        ELSE Ret(NilErr, SpoolVal(dec.files), trip)

GetSpoolFileContent(jobName, jobID, spoolID, resp) ==
    LET url == JobByNameIDEndpoint(PathEscape(jobName), PathEscape(jobID))
               \o JobFilesByIDEndpoint(Itoa(spoolID))
        trip == <<Trip("GET", url, resp)>>
    IN  IF resp.neterr # "" THEN Ret(RequestFailed("GET", url, resp), StrVal(""), trip)
        ELSE IF resp.status # StatusOK THEN Ret(StatusFailed(resp), StrVal(""), trip)
        ELSE Ret(NilErr, StrVal(resp.body.raw), trip)

-----------------------------------------------------------------------------
(* pkg/jobs: the convenience functions *)

\* The first part of GetJobOutput and GetJobOutputByDDName: the job a correlator
\* or a bare job id names.  notFound is the value returned with an error.
ResolveParsed(p, notFound) ==
    [jobName |-> p.jobName, jobID |-> p.jobID,
     ret |-> Ret(IF p.err.nil THEN NilErr ELSE InvalidCorrelator(p.err), notFound, <<>>)]

ResolveFound(correlator, list, k, notFound) ==
    [jobName |-> IF k > 0 THEN list.val.jobs[k].JobName ELSE "",
     jobID |-> IF k > 0 THEN list.val.jobs[k].JobID ELSE "",
     ret |-> Ret(IF ~list.err.nil
                 THEN Errorf("failed to find job with ID " \o correlator \o ": "
                             \o list.err.text)
                 ELSE IF k = 0 THEN Errorf("job with ID " \o correlator \o " not found")
                 ELSE NilErr,
                 notFound, list.events)]

ResolveListed(correlator, list, notFound) ==
    ResolveFound(correlator, list,
                 IF list.err.nil THEN FindJobByID(list.val.jobs, correlator) ELSE 0,
                 notFound)

ResolveJob(correlator, resp, notFound) ==
    IF Contains(correlator, ":") THEN ResolveParsed(parseCorrelator(correlator), notFound)
    ELSE ResolveListed(correlator, ListJobs(ByIDFilter(correlator), resp), notFound)

NoOutput == [x \in {} |-> ""]

\* output[ddName] = content
PutOutput(output, ddName, content) ==
    [d \in (DOMAIN output) \cup {ddName} |-> IF d = ddName THEN content ELSE output[d]]

\* Whether GetJobOutput keeps the content a fetch returned
KeepAll(fetch) == TRUE
KeepContent(fetch) == fetch.err.nil

\* output and events after the content fetch of spool file i
Collected(acc, file, fetch) ==
    [output |-> IF KeepContent(fetch) THEN PutOutput(acc.output, file.DDName, fetch.val.s)
                ELSE acc.output,
     events |-> acc.events \o fetch.events]

\* The loop of GetJobOutput over spoolFiles[i..]; rs[i] answers the fetch of file i
RECURSIVE CollectOutput(_, _, _, _, _, _)
CollectOutput(jobName, jobID, spoolFiles, rs, i, acc) ==
    IF i > Len(spoolFiles) THEN acc
    ELSE CollectOutput(jobName, jobID, spoolFiles, rs, i + 1,
                       Collected(acc, spoolFiles[i],
                                 GetSpoolFileContent(jobName, jobID, spoolFiles[i].ID, rs[i])))

\* GetJobOutput once all contents are fetched
OutputOf(sofar, all) == Ret(NilErr, MapVal(all.output), sofar \o all.events)

\* GetJobOutput once the spool file list has returned
GetJobOutputListed(job, spool, rs) ==
    IF ~spool.err.nil
    THEN Ret(Errorf("failed to get spool files: " \o spool.err.text), NilVal,
             job.ret.events \o spool.events)
    ELSE OutputOf(job.ret.events \o spool.events,
                  CollectOutput(job.jobName, job.jobID, spool.val.files, rs, 1,
                                [output |-> NoOutput, events |-> <<>>]))

\* GetJobOutput once the job is resolved
GetJobOutputOf(job, r2, rs) ==
    IF ~job.ret.err.nil THEN job.ret
    ELSE GetJobOutputListed(job, GetSpoolFiles(job.jobName, job.jobID, r2), rs)

\* The first index of spoolFiles with the DD name, 0 when there is none
FindDD(spoolFiles, ddName) ==
    IF \E i \in 1..Len(spoolFiles) : spoolFiles[i].DDName = ddName
    THEN CHOOSE i \in 1..Len(spoolFiles) :
             spoolFiles[i].DDName = ddName
             /\ \A j \in 1..(i - 1) : spoolFiles[j].DDName # ddName
    ELSE 0

\* GetJobOutputByDDName once the content of the DD is fetched
DDContent(ddName, sofar, fetch) ==
    IF ~fetch.err.nil
    THEN Ret(Errorf("failed to get content for DD " \o ddName \o ": " \o fetch.err.text),
             StrVal(""), sofar \o fetch.events)
    ELSE Ret(NilErr, fetch.val, sofar \o fetch.events)

\* GetJobOutputByDDName once the DD is looked for among the files (k = 0: not there)
DDFound(correlator, ddName, job, spool, k, r3) ==
    IF k = 0
    THEN Ret(Errorf("DD name " \o ddName \o " not found for job " \o correlator),
             StrVal(""), job.ret.events \o spool.events)
    ELSE DDContent(ddName, job.ret.events \o spool.events,
                   GetSpoolFileContent(job.jobName, job.jobID, spool.val.files[k].ID, r3))

\* GetJobOutputByDDName once the spool file list has returned
DDListed(correlator, ddName, job, spool, r3) ==
    IF ~spool.err.nil
    THEN Ret(Errorf("failed to get spool files: " \o spool.err.text), StrVal(""),
             job.ret.events \o spool.events)
    ELSE DDFound(correlator, ddName, job, spool, FindDD(spool.val.files, ddName), r3)

\* GetJobOutputByDDName once the job is resolved
DDResolved(correlator, ddName, job, r2, r3) ==
    IF ~job.ret.err.nil THEN job.ret
    ELSE DDListed(correlator, ddName, job, GetSpoolFiles(job.jobName, job.jobID, r2), r3)

isAlphanumericChar(c) ==
    IsUpper(c) \/ IsDigit(c)

\* isValidDatasetChar
isValidDatasetChar(c) ==
    IsUpper(c) \/ IsDigit(c) \/ c \in {"@", "#", "$", "-", "."}

\* isValidDatasetName
isValidDatasetName(dataset) ==
    /\ ~(Len(dataset) = 0 \/ Len(dataset) > 44)
    /\ ~IsDigit(Char(dataset, 1))
    /\ \A i \in 1..Len(dataset) : isValidDatasetChar(Char(dataset, i))

WithoutAbend == <<"OUTPUT", "CC 0000", "CC 0001", "CC 0002", "CC 0003", "CC 0004">>
completedStatuses == <<"OUTPUT", "CC 0000", "CC 0001", "CC 0002", "CC 0003", "CC 0004", "ABEND">>

isJobComplete(status) ==
    \E i \in 1..Len(completedStatuses) : Contains(ToUpper(status), completedStatuses[i])

\* The test at the top of the loop of WaitForJobCompletion
TimedOutInclusive(elapsed, timeout) == elapsed >= timeout
TimedOut(elapsed, timeout) == elapsed > timeout

\* The test of the error GetJobStatus returned to the loop
FetchNeverFailed(err) == FALSE
FetchFailed(err) == ~err.nil

-----------------------------------------------------------------------------
(* pkg/datasets: the dataset manager *)

DatasetsEndpoint == "/restfiles/ds"

DatasetByNameEndpoint(name) == "/restfiles/ds/" \o name

MembersEndpoint == "/member"

\* The URL of a member: /restfiles/ds/<dataset>(<member>)
MemberURL(datasetName, memberName) ==
    "/restfiles/ds/" \o PathEscape(datasetName) \o "(" \o PathEscape(memberName) \o ")"

\* The user of the session
SessionUser == "U"

\* The struct Dataset, reduced to name and organization
Dataset(name, type) == [Name |-> name, Type |-> type]

DatasetVal(ds) == [t |-> "dataset", dataset |-> ds]

DatasetListVal(dss) == [t |-> "datasetlist", datasets |-> dss]

MemberListVal(ms) == [t |-> "memberlist", members |-> ms]

BoolVal(b) == [t |-> "bool", b |-> b]

\* The struct DatasetFilter; a nil *DatasetFilter has nil = TRUE
DatasetFilter(name, type, volume, owner, limit) ==
    [nil |-> FALSE, Name |-> name, Type |-> type, Volume |-> volume, Owner |-> owner,
     Limit |-> limit]

NilDatasetFilter == [DatasetFilter("", "", "", "", 0) EXCEPT !.nil = TRUE]

ByNameFilter(name) == DatasetFilter(name, "", "", "", 0)

\* Unmarshal of one JSON value into a Dataset
DatasetFromJSON(json) ==
    IF json.kind = "object"
    THEN [ok |-> TRUE,
          dataset |-> Dataset(StringMember(json, "dsname"), StringMember(json, "dsorg"))]
    ELSE IF json.kind = "null" THEN [ok |-> TRUE, dataset |-> Dataset("", "")]
    ELSE [ok |-> FALSE, dataset |-> Dataset("", "")]

\* Unmarshal of a JSON value into DatasetList{Datasets []Dataset `json:"items"`}
DatasetListFromJSON(json) ==
    IF json.kind = "object" /\ HasMember(json, "items")
    THEN LET items == json.members["items"]
         IN  IF items.kind = "array"
             THEN [ok |-> \A i \in 1..Len(items.items) : DatasetFromJSON(items.items[i]).ok,
                   datasets |-> [i \in 1..Len(items.items) |->
                                    DatasetFromJSON(items.items[i]).dataset]]
             ELSE [ok |-> items.kind = "null", datasets |-> <<>>]
    ELSE [ok |-> json.kind \in {"object", "null"}, datasets |-> <<>>]

\* Unmarshal of a JSON value into MemberList{Members []DatasetMember `json:"items"`}:
\* the member names
MemberListFromJSON(json) ==
    IF json.kind = "object" /\ HasMember(json, "items")
    THEN LET items == json.members["items"]
         IN  IF items.kind = "array"
             THEN [ok |-> \A i \in 1..Len(items.items) :
                              items.items[i].kind \in {"object", "null"},
                   members |-> [i \in 1..Len(items.items) |->
                                   IF items.items[i].kind = "object"
                                   THEN StringMember(items.items[i], "member") ELSE ""]]
             ELSE [ok |-> items.kind = "null", members |-> <<>>]
    ELSE [ok |-> json.kind \in {"object", "null"}, members |-> <<>>]

\* The text of the error json.Unmarshal reports for bytes it cannot decode
UnmarshalErrorText(body, goType) ==
    IF body.raw = "" THEN "unexpected end of JSON input"
    ELSE IF body.json.kind = "invalid"
    THEN "invalid character '" \o Char(body.raw, 1) \o "' looking for beginning of value"
    ELSE "json: cannot unmarshal " \o body.json.kind \o " into Go value of type " \o goType

\* The query string of ListDatasets: url.Values.Encode writes the keys in sorted order
ListDatasetsQuery(filter) ==
    LET hasName == ~filter.nil /\ filter.Name # ""
        hasVolume == ~filter.nil /\ filter.Volume # ""
        hasOwner == ~filter.nil /\ filter.Owner # ""
        dslevel == IF hasName THEN filter.Name
                   ELSE IF hasVolume THEN "" ELSE SessionUser \o ".*"
    IN  "?" \o JoinQuery(
            (IF dslevel # "" THEN <<"dslevel=" \o QueryEscape(dslevel)>> ELSE <<>>)
            \o (IF hasOwner THEN <<"start=" \o QueryEscape(filter.Owner)>> ELSE <<>>)
            \o (IF hasVolume THEN <<"volser=" \o QueryEscape(filter.Volume)>> ELSE <<>>))

\* ListDatasets once its URL is built
ListDatasetsAt(url, resp) ==
    LET trip == <<Trip("GET", url, resp)>>
        dec == DatasetListFromJSON(resp.body.json)
    IN  IF resp.neterr # "" THEN Ret(RequestFailed("GET", url, resp), NilVal, trip)
        ELSE IF resp.status # StatusOK THEN Ret(StatusFailed(resp), NilVal, trip)
        ELSE IF ~dec.ok
        THEN Ret(Errorf("failed to decode response: "
                        \o UnmarshalErrorText(resp.body, "datasets.DatasetList")),
                 NilVal, trip)
        ELSE Ret(NilErr, DatasetListVal(dec.datasets), trip)

ListDatasets(filter, resp) ==
    ListDatasetsAt(DatasetsEndpoint \o ListDatasetsQuery(filter), resp)

\* The first index of datasets with the name, 0 when there is none
FindDataset(datasets, name) ==
    IF \E i \in 1..Len(datasets) : datasets[i].Name = name
    THEN CHOOSE i \in 1..Len(datasets) :
             datasets[i].Name = name /\ \A j \in 1..(i - 1) : datasets[j].Name # name
    ELSE 0

\* GetDataset once the dataset is looked for in the list (k = 0: not there)
DatasetFound(name, list, k) ==
    IF k = 0 THEN Ret(Errorf("dataset not found: " \o name), NilVal, list.events)
    ELSE Ret(NilErr, DatasetVal(list.val.datasets[k]), list.events)

\* GetDataset once the list request has returned
DatasetListed(name, list) ==
    IF ~list.err.nil THEN Ret(list.err, NilVal, list.events)
    ELSE DatasetFound(name, list, FindDataset(list.val.datasets, name))

GetDataset(name, resp) == DatasetListed(name, ListDatasets(ByNameFilter(name), resp))

\* getDatasetInfoDirect once its URL is built
DatasetInfoAt(name, url, resp) ==
    LET trip == <<Trip("GET", url, resp)>>
        dec == DatasetFromJSON(resp.body.json)
    IN  IF resp.neterr # "" THEN Ret(RequestFailed("GET", url, resp), NilVal, trip)
        ELSE IF resp.status = StatusNotFound
        THEN Ret(Errorf("dataset not found: " \o name), NilVal, trip)
        ELSE IF resp.status # StatusOK THEN Ret(StatusFailed(resp), NilVal, trip)
        ELSE IF ~dec.ok THEN Ret(DecodeFailed(resp.body, "datasets.Dataset"), NilVal, trip)
        ELSE Ret(NilErr, DatasetVal(dec.dataset), trip)

getDatasetInfoDirect(name, resp) ==
    DatasetInfoAt(name, DatasetByNameEndpoint(PathEscape(name)) \o "?metadata=true", resp)

\* GetDatasetInfo once the direct request has returned: on any error the list request
AlwaysListed(name, direct, r2) == After(direct.events, GetDataset(name, r2))
DirectOrListed(name, direct, r2) ==
    IF direct.err.nil THEN direct ELSE After(direct.events, GetDataset(name, r2))

\* The structs Space and CreateDatasetRequest
Space(primary, secondary, unit, directory) ==
    [Primary |-> primary, Secondary |-> secondary, Unit |-> unit, Directory |-> directory]

CreateDatasetRequest(name, type, volume, space, recordFormat, recordLength, blockSize, directory) ==
    [Name |-> name, Type |-> type, Volume |-> volume, Space |-> space,
     RecordFormat |-> recordFormat, RecordLength |-> recordLength,
     BlockSize |-> blockSize, Directory |-> directory]

JSONNumber(key, n) == "\"" \o key \o "\":" \o Itoa(n)

\* json.Marshal of the request body of CreateDataset: the keys in sorted order
CreateBody(request) ==
    LET dirblk == IF request.Directory > 0 THEN request.Directory
                  ELSE IF request.Space.Primary > 0 /\ request.Space.Directory > 0
                  THEN request.Space.Directory ELSE 0
    IN  "{" \o JoinComma(
            (IF request.Space.Primary > 0
             THEN <<JSONPair("alcunit", request.Space.Unit)>> ELSE <<>>)
            \o (IF request.BlockSize > 0
                THEN <<JSONNumber("blksize", request.BlockSize)>> ELSE <<>>)
            \o (IF dirblk > 0 THEN <<JSONNumber("dirblk", dirblk)>> ELSE <<>>)
            \o <<JSONPair("dsname", request.Name), JSONPair("dsorg", request.Type)>>
            \o (IF request.RecordLength > 0
                THEN <<JSONNumber("lrecl", request.RecordLength)>> ELSE <<>>)
            \o (IF request.Space.Primary > 0
                THEN <<JSONNumber("primary", request.Space.Primary)>> ELSE <<>>)
            \o (IF request.RecordFormat # ""
                THEN <<JSONPair("recfm", request.RecordFormat)>> ELSE <<>>)
            \o (IF request.Space.Primary > 0
                THEN <<JSONNumber("secondary", request.Space.Secondary)>> ELSE <<>>)
            \o (IF request.Volume # "" THEN <<JSONPair("vol", request.Volume)>> ELSE <<>>))
        \o "}"

CreatedOK(status) == status \in {StatusCreated, StatusOK}

\* The structs UploadRequest and DownloadRequest
UploadRequest(datasetName, memberName, content, encoding, replace) ==
    [DatasetName |-> datasetName, MemberName |-> memberName, Content |-> content,
     Encoding |-> encoding, Replace |-> replace]

DownloadRequest(datasetName, memberName, encoding) ==
    [DatasetName |-> datasetName, MemberName |-> memberName, Encoding |-> encoding]

\* The URL of the content of a dataset or of one of its members
ContentURL(request) ==
    IF request.MemberName # "" THEN MemberURL(request.DatasetName, request.MemberName)
    ELSE DatasetByNameEndpoint(PathEscape(request.DatasetName))

UploadAccepts(status) == status \in {StatusCreated, StatusOK, StatusNoContent}

UploadContentTwice(request, resp) ==
    LET url == ContentURL(request)
        trip == <<TripWith("PUT", url, "text/plain", request.Content, resp)>>
    IN  IF resp.neterr # "" THEN Ret(RequestFailed("PUT", url, resp), NilVal, trip \o trip)
        ELSE IF ~UploadAccepts(resp.status) THEN Ret(StatusFailed(resp), NilVal, trip \o trip)
        ELSE Ret(NilErr, NilVal, trip)

UploadNoContent(request, resp) ==
    LET url == ContentURL(request)
        trip == <<TripWith("PUT", url, "text/plain", "", resp)>>
    IN  IF resp.neterr # "" THEN Ret(RequestFailed("PUT", url, resp), NilVal, trip)
        ELSE IF ~UploadAccepts(resp.status) THEN Ret(StatusFailed(resp), NilVal, trip)
        ELSE Ret(NilErr, NilVal, trip)

UploadContent(request, resp) ==
    LET url == ContentURL(request)
        trip == <<TripWith("PUT", url, "text/plain", request.Content, resp)>>
    IN  IF resp.neterr # "" THEN Ret(RequestFailed("PUT", url, resp), NilVal, trip)
        ELSE IF ~UploadAccepts(resp.status) THEN Ret(StatusFailed(resp), NilVal, trip)
        ELSE Ret(NilErr, NilVal, trip)

DownloadContent(request, resp) ==
    LET url == ContentURL(request)
               \o (IF request.Encoding # ""
                   THEN "?encoding=" \o QueryEscape(request.Encoding) ELSE "")
        trip == <<Trip("GET", url, resp)>>
    IN  IF resp.neterr # "" THEN Ret(RequestFailed("GET", url, resp), StrVal(""), trip)
        ELSE IF resp.status # StatusOK THEN Ret(StatusFailed(resp), StrVal(""), trip)
        ELSE Ret(NilErr, StrVal(resp.body.raw), trip)

ListMembers(datasetName, resp) ==
    LET url == DatasetByNameEndpoint(PathEscape(datasetName)) \o MembersEndpoint
        trip == <<Trip("GET", url, resp)>>
        dec == MemberListFromJSON(resp.body.json)
    IN  IF resp.neterr # "" THEN Ret(RequestFailed("GET", url, resp), NilVal, trip)
        ELSE IF resp.status # StatusOK THEN Ret(StatusFailed(resp), NilVal, trip)
        ELSE IF ~dec.ok THEN Ret(DecodeFailed(resp.body, "datasets.MemberList"), NilVal, trip)
        ELSE Ret(NilErr, MemberListVal(dec.members), trip)

\* Exists once the list request has returned
ExistsListed(name, list) ==
    IF ~list.err.nil THEN Ret(list.err, BoolVal(FALSE), list.events)
    ELSE Ret(NilErr, BoolVal(FindDataset(list.val.datasets, name) > 0), list.events)

Exists(name, resp) == ExistsListed(name, ListDatasets(ByNameFilter(name), resp))

\* json.Marshal of the body of a copy or rename request
FromDatasetBody(request, sourceName, sourceMember) ==
    "{\"from-dataset\":{" \o JoinComma(
        <<JSONPair("dsn", sourceName)>>
        \o (IF sourceMember.set THEN <<JSONPair("member", sourceMember.name)>> ELSE <<>>))
    \o "}," \o JSONPair("request", request) \o "}"

NoMember == [set |-> FALSE, name |-> ""]

PostFromDataset(url, body, resp) ==
    LET trip == <<TripWith("POST", url, "application/json", body, resp)>>
    IN  IF resp.neterr # "" THEN Ret(RequestFailed("POST", url, resp), NilVal, trip)
        ELSE IF ~CreatedOK(resp.status) THEN Ret(StatusFailed(resp), NilVal, trip)
        ELSE Ret(NilErr, NilVal, trip)

\* A PUT to the target that names the source in its body
PutFromDataset(url, body, resp) ==
    LET trip == <<TripWith("PUT", url, "application/json", body, resp)>>
    IN  IF resp.neterr # "" THEN Ret(RequestFailed("PUT", url, resp), NilVal, trip)
        ELSE IF ~CreatedOK(resp.status) THEN Ret(StatusFailed(resp), NilVal, trip)
        ELSE Ret(NilErr, NilVal, trip)

-----------------------------------------------------------------------------
(* pkg/datasets: the convenience functions *)

\* The pattern ^[A-Z@#$][A-Z0-9@#$.-]*$ of the two name validators
PatternWithoutAnchor(name) ==
    /\ Len(name) >= 1
    /\ \A i \in 1..Len(name) :
           IsUpper(Char(name, i)) \/ IsDigit(Char(name, i))
           \/ Char(name, i) \in {"@", "#", "$", ".", "-"}

NamePatternMatches(name) ==
    /\ Len(name) >= 1
    /\ IsUpper(Char(name, 1)) \/ Char(name, 1) \in {"@", "#", "$"}
    /\ \A i \in 2..Len(name) :
           IsUpper(Char(name, i)) \/ IsDigit(Char(name, i))
           \/ Char(name, i) \in {"@", "#", "$", ".", "-"}

ValidateDatasetName(name) ==
    IF name = "" THEN Errorf("dataset name cannot be empty")
    ELSE IF Len(name) > 44 THEN Errorf("dataset name cannot exceed 44 characters")
    ELSE IF ~NamePatternMatches(name) THEN Errorf("dataset name contains invalid characters")
    ELSE IF Contains(name, "..")
    THEN Errorf("dataset name cannot contain consecutive periods")
    ELSE IF HasPrefix(name, ".") \/ HasSuffix(name, ".")
    THEN Errorf("dataset name cannot start or end with a period")
    ELSE IF Contains(name, "--")
    THEN Errorf("dataset name cannot contain consecutive hyphens")
    ELSE NilErr

ValidateMemberName(name) ==
    IF name = "" THEN Errorf("member name cannot be empty")
    ELSE IF Len(name) > 8 THEN Errorf("member name cannot exceed 8 characters")
    ELSE IF ~NamePatternMatches(name) THEN Errorf("member name contains invalid characters")
    ELSE IF Contains(name, "..")
    THEN Errorf("member name cannot contain consecutive periods")
    ELSE IF HasPrefix(name, ".") \/ HasSuffix(name, ".")
    THEN Errorf("member name cannot start or end with a period")
    ELSE NilErr

InvalidMemberName(memberName) ==
    Errorf("invalid member name: " \o ValidateMemberName(memberName).text)

\* The guidance the member uploads put around an error of the PDS directory;
\* other is what they return for any other error
DirectoryGuidance(datasetName, memberName, err, other) ==
    IF Contains(err.text, "ISRZ002") \/ Contains(err.text, "I/O error")
    THEN Errorf("PDS directory I/O error for member " \o memberName \o " in "
                \o datasetName \o ": " \o err.text
                \o ". This typically indicates:\n1. Directory corruption - use ISPF 3.1 or IEBCOPY to repair\n2. Insufficient directory space - reallocate PDS with more directory blocks\n3. Member name conflicts - check for duplicate or invalid names")
    ELSE IF Contains(err.text, "LMFIND error")
    THEN Errorf("PDS directory search error for member " \o memberName \o " in "
                \o datasetName \o ": " \o err.text
                \o ". The PDS directory may need maintenance using ISPF utilities")
    ELSE other

\* UploadTextToMemberWithValidation up to its call of uploadWithRetry: the
\* checks of the member name, of the dataset and of its directory.  go tells
\* whether the upload is reached, memberExists what the second listing found.
StopUpload(err, evs) ==
    [go |-> FALSE, memberExists |-> FALSE, ret |-> Ret(err, NilVal, evs)]

\* ... once the second ListMembers has returned (its error is ignored)
MemberLooked(memberName, evs, members) ==
    [go |-> TRUE,
     memberExists |-> members.err.nil
                      /\ \E i \in 1..Len(members.val.members) :
                             members.val.members[i] = memberName,
     ret |-> Ret(NilErr, NilVal, evs \o members.events)]

\* ... once the first ListMembers has returned
DirectoryListed(datasetName, memberName, evs, listed, r4) ==
    IF ~listed.err.nil
    THEN StopUpload(Errorf("PDS directory error for " \o datasetName \o ": "
                           \o listed.err.text
                           \o ". This may indicate directory corruption or insufficient directory space. Consider using IEBCOPY or ISPF to repair the PDS directory"),
                    evs \o listed.events)
    ELSE MemberLooked(memberName, evs \o listed.events, ListMembers(datasetName, r4))

TypeUnchecked(datasetName, memberName, evs, dsInfo, r3, r4) ==
    IF ~dsInfo.err.nil
    THEN StopUpload(Errorf("failed to get dataset information: " \o dsInfo.err.text),
                    evs \o dsInfo.events)
    ELSE DirectoryListed(datasetName, memberName, evs \o dsInfo.events,
                         ListMembers(datasetName, r3), r4)

\* ... once GetDataset has returned
TypeChecked(datasetName, memberName, evs, dsInfo, r3, r4) ==
    IF ~dsInfo.err.nil
    THEN StopUpload(Errorf("failed to get dataset information: " \o dsInfo.err.text),
                    evs \o dsInfo.events)
    ELSE IF dsInfo.val.dataset.Type # "PO" /\ dsInfo.val.dataset.Type # "PO-E"
    THEN StopUpload(Errorf("dataset " \o datasetName
                           \o " is not a partitioned dataset (type: "
                           \o dsInfo.val.dataset.Type \o ")"),
                    evs \o dsInfo.events)
    ELSE DirectoryListed(datasetName, memberName, evs \o dsInfo.events,
                         ListMembers(datasetName, r3), r4)

\* ... once Exists has returned
ExistenceChecked(datasetName, memberName, exists, r2, r3, r4) ==
    IF ~exists.err.nil
    THEN StopUpload(Errorf("failed to check dataset existence: " \o exists.err.text),
                    exists.events)
    ELSE IF ~exists.val.b
    THEN StopUpload(Errorf("dataset " \o datasetName \o " does not exist"), exists.events)
    ELSE TypeChecked(datasetName, memberName, exists.events, GetDataset(datasetName, r2),
                     r3, r4)

ChecksBeforeUpload(datasetName, memberName, r1, r2, r3, r4) ==
    IF ~ValidateMemberName(memberName).nil
    THEN StopUpload(InvalidMemberName(memberName), <<>>)
    ELSE ExistenceChecked(datasetName, memberName, Exists(datasetName, r1), r2, r3, r4)

\* uploadWithRetry
maxRetries == 3

retryDelay == 2

retryableTexts ==
    <<"isrz002", "i/o error", "lmfind error", "directory", "timeout", "connection">>

RetryAnything(errorStr) == TRUE
isRetryable(errorStr) ==
    \E i \in 1..Len(retryableTexts) : Contains(errorStr, retryableTexts[i])

\* How long uploadWithRetry sleeps after the failed attempt
FlatWaitTime(attempt) == retryDelay
waitTime(attempt) == attempt * retryDelay

LastErrorAlone(lastError) == lastError

RetriesExhausted(lastError) ==
    Errorf("upload failed after " \o Itoa(maxRetries) \o " attempts: " \o lastError.text)

\* What UploadTextToMemberWithValidation returns for the error of uploadWithRetry
UploadOutcome(datasetName, memberName, err) ==
    IF err.nil THEN NilErr
    ELSE DirectoryGuidance(datasetName, memberName, err,
             Errorf("failed to upload member " \o memberName \o " to " \o datasetName
                    \o ": " \o err.text))

-----------------------------------------------------------------------------
(* pkg/profile: profiles and sessions *)

\* The printable ASCII characters of codes 32 to 95 and of codes 97 to 126
AsciiLow == " !\"#$%&'()*+,-./0123456789:;<=>?@ABCDEFGHIJKLMNOPQRSTUVWXYZ[\\]^_"

AsciiHigh == "abcdefghijklmnopqrstuvwxyz{|}~"

\* The byte of a one-character string
Ord(c) ==
    IF \E i \in 1..Len(AsciiLow) : Char(AsciiLow, i) = c
    THEN 31 + (CHOOSE i \in 1..Len(AsciiLow) : Char(AsciiLow, i) = c)
    ELSE 96 + (CHOOSE i \in 1..Len(AsciiHigh) : Char(AsciiHigh, i) = c)

Base64Alphabet == "ABCDEFGHIJKLMNOPQRSTUVWXYZabcdefghijklmnopqrstuvwxyz0123456789+/"

Base64Digit(n) == Char(Base64Alphabet, n + 1)

\* base64.StdEncoding.EncodeToString: three bytes become four digits, the last
\* group is padded with =
RECURSIVE Base64(_)
Base64(s) ==
    IF s = "" THEN ""
    ELSE LET b1 == Ord(Char(s, 1))
             b2 == IF Len(s) >= 2 THEN Ord(Char(s, 2)) ELSE 0
             b3 == IF Len(s) >= 3 THEN Ord(Char(s, 3)) ELSE 0
             n == (b1 * 65536) + (b2 * 256) + b3
         IN  Base64Digit(n \div 262144) \o Base64Digit((n \div 4096) % 64)
             \o (IF Len(s) >= 2 THEN Base64Digit((n \div 64) % 64) ELSE "=")
             \o (IF Len(s) >= 3 THEN Base64Digit(n % 64) ELSE "=")
             \o (IF Len(s) > 3 THEN Base64(SubSeq(s, 4, Len(s))) ELSE "")

\* The struct ZOSMFProfile, reduced to the fields NewSession reads
ZOSMFProfile(host, port, user, password, rejectUnauthorized, basePath, protocol) ==
    [Host |-> host, Port |-> port, User |-> user, Password |-> password,
     RejectUnauthorized |-> rejectUnauthorized, BasePath |-> basePath,
     Protocol |-> protocol]

\* The struct Session; HTTPClient is reduced to its timeout (in seconds) and to
\* the InsecureSkipVerify flag of its TLS configuration
Session(profile, baseURL, client, headers) ==
    [Profile |-> profile, Host |-> profile.Host, Port |-> profile.Port,
     User |-> profile.User, Password |-> profile.Password, BaseURL |-> baseURL,
     HTTPClient |-> client, Headers |-> headers]

\* The base URL NewSession builds
SessionBaseURL(p) ==
    LET protocol == IF p.Port = 80 \/ p.Port = 8080 THEN "http"
                    ELSE IF p.Protocol = "" THEN "https"
                    ELSE p.Protocol
        basePath == IF p.BasePath = "" THEN "/zosmf"
                    ELSE IF Char(p.BasePath, 1) # "/" THEN "/" \o p.BasePath
                    ELSE p.BasePath
    IN  protocol \o "://" \o p.Host
        \o (IF p.Port # 0 /\ p.Port # 80 /\ p.Port # 443 THEN ":" \o Itoa(p.Port) ELSE "")
        \o basePath

\* The headers NewSession gives a session
DefaultHeaders(p) ==
    IF p.User # "" /\ p.Password # ""
    THEN [k \in {"Content-Type", "Accept", "Authorization"} |->
             IF k = "Authorization" THEN "Basic " \o Base64(p.User \o ":" \o p.Password)
             ELSE "application/json"]
    ELSE [k \in {"Content-Type", "Accept"} |-> "application/json"]

\* NewSession, for a profile that is not nil; it returns no error
NewSession(p) ==
    Session(p, SessionBaseURL(p),
            [Timeout |-> 30, InsecureSkipVerify |-> ~p.RejectUnauthorized],
            DefaultHeaders(p))

\* s.Headers[key] = value
AddHeaderAlone(s, key, value) == [s EXCEPT !.Headers = [k \in {key} |-> value]]
AddHeader(s, key, value) ==
    [s EXCEPT !.Headers = [k \in (DOMAIN s.Headers) \cup {key} |->
                              IF k = key THEN value ELSE s.Headers[k]]]

\* delete(s.Headers, key)
RemoveHeader(s, key) ==
    [s EXCEPT !.Headers = [k \in (DOMAIN s.Headers) \ {key} |-> s.Headers[k]]]

\* The profile of the session the managers are made from
ManagerProfile == ZOSMFProfile("zos", 443, SessionUser, "pw", TRUE, "", "https")

-----------------------------------------------------------------------------
(* The server and the network: the responses a round trip may receive *)

\* json.Marshal of a Job, as the test servers encode it
MarshalJob(j) ==
    "{" \o JoinComma(<<JSONPair("jobid", j.JobID), JSONPair("jobname", j.JobName),
                       JSONPair("owner", j.Owner), JSONPair("status", j.Status)>>) \o "}"

JobJSON(j) ==
    JObject([jobid |-> j.JobID, jobname |-> j.JobName, owner |-> j.Owner,
             status |-> j.Status])

JobBody(j) == Body(MarshalJob(j) \o "\n", JobJSON(j))

MarshalJobs(js) == "[" \o JoinComma([i \in 1..Len(js) |-> MarshalJob(js[i])]) \o "]"

JobsJSON(js) == JArray([i \in 1..Len(js) |-> JobJSON(js[i])])

\* The two shapes of a job list: the bare array and the wrapper object
ArrayBody(js) == Body(MarshalJobs(js) \o "\n", JobsJSON(js))

WrapperBody(js) ==
    Body("{\"jobs\":" \o MarshalJobs(js) \o "}\n", JObject([jobs |-> JobsJSON(js)]))

EmptyObjectBody == Body("{}", JObject(NoMembers))

NullBody == Body("null", JNull)

ErrorBody == Body("{\"error\": \"Job not found\"}", JObject([error |-> "Job not found"]))

HtmlBody == Body("<html>", JInvalid)

EmptyBody == Body("", JInvalid)

\* The jobs the server may report
ServerJobs ==
    {Job("1", "A", "U", "OUTPUT"), Job("1", "B", "U", "ACTIVE"), Job("11", "A", "U", "ACTIVE")}

RECURSIVE SeqsOfLen(_, _)
SeqsOfLen(S, n) ==
    IF n = 0 THEN {<<>>} ELSE {<<x>> \o q : x \in S, q \in SeqsOfLen(S, n - 1)}

SeqsUpTo(S, n) == UNION {SeqsOfLen(S, k) : k \in 0..n}

JobLists == SeqsUpTo(ServerJobs, MaxJobs)

\* Failures of the transport
NetFails == {NetFail("dial tcp: connect: connection refused")}

\* Responses that are no success for any operation
Refusals == {Http(404, ErrorBody), Http(500, HtmlBody), Http(401, EmptyBody)}

ListResps ==
    NetFails \cup Refusals
    \cup {Http(200, ArrayBody(js)) : js \in JobLists}
    \cup {Http(200, WrapperBody(js)) : js \in JobLists}
    \cup {Http(200, EmptyObjectBody), Http(200, NullBody), Http(200, ErrorBody),
          Http(200, HtmlBody), Http(200, EmptyBody)}

JobStatuses == {"ACTIVE", "OUTPUT", "Abend", "CC 0004", "CC 0008"}

JobResps ==
    NetFails \cup Refusals
    \cup {Http(200, JobBody(Job("1", "A", "U", st))) : st \in JobStatuses}
    \cup {Http(200, NullBody), Http(200, ArrayBody(<<>>)), Http(200, HtmlBody)}

\* Responses to a request that returns no document
PlainResps ==
    NetFails \cup Refusals
    \cup {Http(200, EmptyBody), Http(201, EmptyBody), Http(202, EmptyBody),
          Http(204, EmptyBody)}

SubmitResps ==
    NetFails \cup Refusals
    \cup {Http(st, JobBody(Job("1", "A", "U", "INPUT"))) : st \in {200, 201, 202, 204}}
    \cup {Http(201, HtmlBody)}

\* Spool file lists: file i has id i and one of two DD names
DDNames == {"X", "Y"}

SpoolJSON(dds) ==
    JArray([i \in 1..Len(dds) |-> JObject([id |-> i, ddname |-> dds[i]])])

MarshalSpool(dds) ==
    "[" \o JoinComma([i \in 1..Len(dds) |->
            "{\"id\":" \o Itoa(i) \o "," \o JSONPair("ddname", dds[i]) \o "}"]) \o "]"

SpoolBody(dds) == Body(MarshalSpool(dds) \o "\n", SpoolJSON(dds))

SpoolResps ==
    NetFails \cup {Http(404, ErrorBody)}
    \cup {Http(200, SpoolBody(dds)) : dds \in SeqsUpTo(DDNames, MaxSpool)}
    \cup {Http(200, NullBody), Http(200, ErrorBody)}

TextBody(text) == Body(text, JInvalid)

ContentResps ==
    NetFails \cup {Http(500, HtmlBody), Http(200, TextBody("a")), Http(200, TextBody("b"))}

\* A server that stores the body of a successful PUT under the path of the
\* request and returns it on a GET of the same path.  The path of a URL is
\* what precedes its query.
PathOf(url) == Split(url, "?")[1]

PutStored(status) == status \in {StatusOK, StatusCreated, StatusNoContent}

\* The answers of the storing server to a PUT and to a GET of a path
PutAnswers ==
    NetFails \cup {Http(204, EmptyBody), Http(201, EmptyBody), Http(200, EmptyBody),
                   Http(500, TextBody("I/O error"))}

GetAnswers(store, path) ==
    NetFails \cup (IF path \in DOMAIN store THEN {Http(200, TextBody(store[path]))}
                   ELSE {Http(404, ErrorBody)})

\* The store once the server has answered resp to the requests evs
StoreAfter(store, evs, resp) ==
    IF evs = <<>> \/ resp.neterr # "" \/ ~PutStored(resp.status) \/ evs[1].method # "PUT"
    THEN store
    ELSE [p \in (DOMAIN store) \cup {PathOf(evs[1].url)} |->
             IF p = PathOf(evs[1].url) THEN evs[1].body ELSE store[p]]

\* The contents uploaded in the round trips
Contents == {"", "x", "//J JOB\n"}

\* The responses to a lookup by bare id inside a larger operation
LookupResps ==
    NetFails \cup {Http(500, HtmlBody), Http(200, ArrayBody(<<>>)),
                   Http(200, ArrayBody(<<Job("1", "B", "U", "ACTIVE"), Job("1", "A", "U", "OUTPUT")>>)),
                   Http(200, WrapperBody(<<Job("1", "A", "U", "OUTPUT")>>)),
                   Http(200, WrapperBody(<<>>))}

\* The identifiers passed to the job operations: every string of the three
\* characters, among them correlators, bare ids and malformed correlators
IdChars == {"A", "1", ":"}

Correlators == StringsUpTo(IdChars, MaxStrLen)

\* The identifiers passed to the operations that make several round trips
FewCorrelators == {"A:1", "1", "11", "A:1:1", ":"}

JobFilters ==
    {NilFilter, JobFilter("", "", 0, "", "", "", ""),
     JobFilter("U", "A*", 10, "", "", "", ""), ByIDFilter("1"),
     JobFilter("", "", 0, "", "A", "OUTPUT", "A:1")}

SubmitRequests ==
    {SubmitJobRequest(st, ds, lf, "", "", vol) :
        st \in {"", "//A JOB", "//S EXEC"}, ds \in {"", "A.B", "1A"},
        lf \in {"", "a.jcl"}, vol \in {"", "V"}}

\* The responses to the round trips of one status fetch: one for a correlator,
\* two (the lookup, then the job) for a bare id
LookupAndJob(correlator, lookups, jobs) ==
    IF Contains(correlator, ":") THEN {<<r>> : r \in jobs}
    ELSE {<<r1, r2>> : r1 \in lookups, r2 \in jobs}

WaitCorrelators == {"A:1", "1", "A:1:1"}

WaitLookupResps ==
    {Http(200, ArrayBody(<<Job("1", "A", "U", "OUTPUT")>>)), Http(200, ArrayBody(<<>>))}

WaitResps ==
    NetFails \cup {Http(404, ErrorBody)}
    \cup {Http(200, JobBody(Job("1", "A", "U", st))) : st \in {"ACTIVE", "OUTPUT", "Abend"}}

Timeouts == (0 - 1)..MaxTimeout

PollIntervals == 0..MaxPollInterval

\* How long one status fetch may take, and what the clock may show at a call
FetchTimes == {0, 1}

ClockAtCall == {0, 5}

\* json.Marshal of a dataset list and of a member list, as z/OSMF sends them
MarshalDataset(ds) ==
    "{" \o JoinComma(<<JSONPair("dsname", ds.Name), JSONPair("dsorg", ds.Type)>>) \o "}"

DatasetJSON(ds) == JObject([dsname |-> ds.Name, dsorg |-> ds.Type])

DatasetBody(ds) == Body(MarshalDataset(ds) \o "\n", DatasetJSON(ds))

DatasetListBody(dss) ==
    Body("{\"items\":[" \o JoinComma([i \in 1..Len(dss) |-> MarshalDataset(dss[i])])
         \o "],\"returnedRows\":" \o Itoa(Len(dss)) \o "}",
         JObject([items |-> JArray([i \in 1..Len(dss) |-> DatasetJSON(dss[i])]),
                  returnedRows |-> Len(dss)]))

MemberListBody(ms) ==
    Body("{\"items\":[" \o JoinComma([i \in 1..Len(ms) |-> "{" \o JSONPair("member", ms[i]) \o "}"])
         \o "],\"returnedRows\":" \o Itoa(Len(ms)) \o "}",
         JObject([items |-> JArray([i \in 1..Len(ms) |-> JObject([member |-> ms[i]])]),
                  returnedRows |-> Len(ms)]))

DatasetNames == {"A.B", "DIRECTORY"}

\* The targets of a copy or a rename: one of them needs escaping in a path
TargetNames == DatasetNames \cup {"A#B"}

DatasetLists ==
    {<<>>, <<Dataset("A.B", "PO")>>, <<Dataset("A.B", "PS")>>,
     <<Dataset("A.C", "PO"), Dataset("DIRECTORY", "PO-E")>>}

DatasetListResps ==
    NetFails \cup {Http(500, HtmlBody)}
    \cup {Http(200, DatasetListBody(dss)) : dss \in DatasetLists}
    \cup {Http(200, HtmlBody), Http(200, NullBody), Http(200, EmptyBody)}

DatasetInfoResps ==
    NetFails \cup {Http(404, ErrorBody), Http(500, HtmlBody), Http(200, HtmlBody),
                   Http(200, DatasetBody(Dataset("A.B", "PO")))}

MemberListResps ==
    NetFails \cup {Http(500, TextBody("I/O error")), Http(200, HtmlBody),
                   Http(200, MemberListBody(<<"M">>)), Http(200, MemberListBody(<<>>))}

\* Responses to an upload: success, and failures of the transport and of the
\* PDS directory
UploadResps ==
    NetFails \cup {NetFail("EOF")}
    \cup {Http(204, EmptyBody), Http(201, EmptyBody),
          Http(500, TextBody("ISRZ002 Deadlock")), Http(500, TextBody("I/O error")),
          Http(500, TextBody("LMFIND error")), Http(507, TextBody("Directory full")),
          Http(504, TextBody("Gateway Timeout")), Http(403, TextBody("denied"))}

\* Member names: valid ones, and one for each way of being invalid
MemberNames == {"M", "A-B", "", "1M", "m", "A..B", "A.", "ABCDEFGHI"}

\* The member names and the responses met by the upload that validates first
FewMemberNames == {"M", "1M", ""}

\* The names handed to the two name validators: every short string over a
\* letter, a lower-case letter, a digit, the period, the hyphen and a national
\* character, and the names at the length limits
NameChars == {"A", "a", "1", ".", "-", "$"}

ValidatorNames ==
    StringsUpTo(NameChars, MaxStrLen) \cup DatasetNames \cup MemberNames
    \cup {"TEST.DATA", "MEMBER1", "TOOLONG12", "ABCDEFGH", "A--B", "A-B-C", "@#$", "A_B",
          "ABCDEFGH.ABCDEFGH.ABCDEFGH.ABCDEFGH.ABCDEFGH",
          "ABCDEFGH.ABCDEFGH.ABCDEFGH.ABCDEFGH.ABCDEFGHI",
          "ABCDEFGH.ABCDEFGH.ABCDEFGH.ABCDEFGH.ABCDEFG."}

\* The job statuses handed to isJobComplete
StatusInputs ==
    {completedStatuses[i] : i \in 1..Len(completedStatuses)}
    \cup {ToLower(completedStatuses[i]) : i \in 1..Len(completedStatuses)}
    \cup {"Output", "Abend", "Cc 0000", "aBEND", "ACTIVE", "INPUT", "RUNNING", "active",
          "", "CC 0008", "CC0000", "CC  0000", "OUTPUT QUEUE", "S0C4 ABENDED", "OUT PUT"}

PDSListResps ==
    {Http(500, HtmlBody), Http(200, DatasetListBody(<<>>)),
     Http(200, DatasetListBody(<<Dataset("A.B", "PS")>>)),
     Http(200, DatasetListBody(<<Dataset("A.B", "PO"), Dataset("DIRECTORY", "PO-E")>>))}

DirectoryResps ==
    {Http(500, TextBody("I/O error")), Http(200, MemberListBody(<<"M">>))}

\* The profiles a caller may build a session from
Profiles ==
    {ZOSMFProfile("zos", port, cred[1], cred[2], TRUE, basePath, protocol) :
        port \in {0, 80, 443, 8080, 8443}, cred \in {<<"", "">>, <<"U", "pw">>},
        basePath \in {"", "/api", "api"}, protocol \in {"", "http", "https"}}
    \cup {ZOSMFProfile("zos", 443, "U", "", TRUE, "", ""),
          ZOSMFProfile("zos", 443, "U", "pw", FALSE, "", "")}

HeaderKeys == {"Accept", "X-CSRF-ZOSMF-HEADER"}

HeaderValues == {"true", "text/plain"}

DatasetFilters ==
    {NilDatasetFilter, ByNameFilter("A.*"), DatasetFilter("", "", "V", "A.B", 5),
     DatasetFilter("A.B", "PO", "V", "", 0)}

CreateDatasetRequests ==
    {CreateDatasetRequest("A.B", "PS", "", Space(10, 5, "TRK", 0), "VB", 256, 27920, 0),
     CreateDatasetRequest("A.B", "PO", "V", Space(10, 5, "TRK", 5), "", 0, 0, 5),
     CreateDatasetRequest("A.B", "PO", "", Space(0, 0, "", 3), "FB", 80, 0, 0),
     CreateDatasetRequest("A#B", "PS", "", Space(0, 0, "", 0), "", 0, 0, 0),
     CreateDatasetRequest("A.B", "PS", "", Space(10, 0, "", 0), "", 0, 0, 0)}

-----------------------------------------------------------------------------
(* The client: one action per operation *)

NoLocal == [none |-> TRUE]

NothingStored == [x \in {} |-> ""]

NoResult == [err |-> NilErr, val |-> NilVal]

Init ==
    /\ op = "none"
    /\ args = [none |-> TRUE]
    /\ pc = "idle"
    /\ events = <<>>
    /\ result = NoResult
    /\ local = NoLocal
    /\ now = 0
    /\ session = NewSession(ManagerProfile)
    /\ server = NothingStored
    /\ uploaded = NothingStored

\* The library is synchronous: a call starts when no call is running
CanCall == pc = "idle"

CallSettingContentType(name, a, ret) ==
    /\ CanCall
    /\ op' = name
    /\ args' = a
    /\ pc' = "done"
    /\ events' = ret.events
    /\ result' = [err |-> ret.err, val |-> ret.val]
    /\ local' = NoLocal
    /\ now' = 0
    /\ session' = IF ret.events = <<>> THEN session
                  ELSE [session EXCEPT !.Headers =
                           [k \in (DOMAIN session.Headers) \cup {"Content-Type"} |->
                               IF k = "Content-Type" THEN "text/plain"
                               ELSE session.Headers[k]]]
    /\ UNCHANGED <<server, uploaded>>

\* A call that runs to its return in one step
Call(name, a, ret) ==
    /\ CanCall
    /\ op' = name
    /\ args' = a
    /\ pc' = "done"
    /\ events' = ret.events
    /\ result' = [err |-> ret.err, val |-> ret.val]
    /\ local' = NoLocal
    /\ now' = 0
    /\ UNCHANGED <<session, server, uploaded>>

\* A call that ends in a run-time panic (a nil pointer dereference, a failed
\* type assertion): it never returns, and nothing in the library recovers
Panic(name, a) ==
    /\ CanCall
    /\ op' = name
    /\ args' = a
    /\ pc' = "panicked"
    /\ events' = <<>>
    /\ result' = NoResult
    /\ local' = NoLocal
    /\ now' = 0
    /\ UNCHANGED <<session, server, uploaded>>

\* A nil request pointer
NilRequest == [nil |-> TRUE]

\* The managers a caller can hold: one made from a session, one made by
\* NewJobManager(nil) (the interface holds a nil *Session), and the zero value
\* &ZOSMFJobManager{} (the interface is nil)
Managers == {"session", "nil session", "no session"}

ListJobsCall ==
    /\ CanCall
    /\ \E f \in JobFilters, r \in ListResps : Call("ListJobs", [filter |-> f], ListJobs(f, r))

GetJobCall ==
    /\ CanCall
    /\ \E c \in Correlators :
        \E rs \in LookupAndJob(c, LookupResps, JobResps) :
            Call("GetJob", [correlator |-> c], GetJob(c, rs))

GetJobStatusCall ==
    /\ CanCall
    /\ \E c \in FewCorrelators :
        \E rs \in LookupAndJob(c, LookupResps, JobResps) :
            Call("GetJobStatus", [correlator |-> c], GetJobStatus(c, rs))

GetJobInfo ==
    /\ CanCall
    /\ \E correlator \in Correlators, resp \in JobResps :
        LET p == parseCorrelator(correlator)
            url == JobByNameIDEndpoint(PathEscape(p.jobName), PathEscape(p.jobID))
                   \o JobFilesEndpoint
            trip == <<Trip("GET", url, resp)>>
            dec == JobFromJSON(resp.body.json)
        IN  Call("GetJobInfo", [correlator |-> correlator],
                 IF ~p.err.nil THEN Ret(InvalidCorrelator(p.err), NilVal, <<>>)
                 ELSE IF resp.neterr # "" THEN Ret(RequestFailed("GET", url, resp), NilVal, trip)
                 ELSE IF resp.status # StatusOK THEN Ret(StatusFailed(resp), NilVal, trip)
                 ELSE IF ~dec.ok
                 THEN Ret(DecodeFailed(resp.body, "jobs.JobInfo"), NilVal, trip)
                 ELSE Ret(NilErr, [t |-> "jobinfo", job |-> dec.job], trip))

GetJobByNameIDCall ==
    /\ CanCall
    /\ \E n \in {"A", "B#"}, i \in {"1", ""}, r \in JobResps :
        Call("GetJobByNameID", [jobName |-> n, jobID |-> i], GetJobByNameID(n, i, r))

GetJobByCorrelator ==
    /\ CanCall
    /\ \E correlator \in FewCorrelators, resp \in JobResps :
        LET url == JobByCorrelatorEndpoint(PathEscape(correlator))
            trip == <<Trip("GET", url, resp)>>
            dec == JobFromJSON(resp.body.json)
        IN  Call("GetJobByCorrelator", [correlator |-> correlator],
                 IF resp.neterr # "" THEN Ret(RequestFailed("GET", url, resp), NilVal, trip)
                 ELSE IF resp.status # StatusOK THEN Ret(StatusFailed(resp), NilVal, trip)
                 ELSE IF ~dec.ok THEN Ret(DecodeFailed(resp.body, "jobs.Job"), NilVal, trip)
                 ELSE Ret(NilErr, JobVal(dec.job), trip))

\* SubmitJob reads request.JobStatement without a test for nil
SubmitJob ==
    /\ CanCall
    /\ \/ Panic("SubmitJob", [request |-> NilRequest])
       \/ \E request \in SubmitRequests, resp \in SubmitResps :
        LET ctype == IF SubmitSource(request) = "statement" THEN "text/plain"
                     ELSE "application/json"
            trip == <<TripWith("PUT", JobsEndpoint, ctype, SubmitBody(request), resp)>>
            dec == JobFromJSON(resp.body.json)
        IN  Call("SubmitJob", [request |-> request],
                 IF SubmitSource(request) = "none"
                 THEN Ret(Errorf("no job source specified (jobStatement, jobDataSet, or jobLocalFile)"),
                          NilVal, <<>>)
                 ELSE IF resp.neterr # ""
                 THEN Ret(RequestFailed("PUT", JobsEndpoint, resp), NilVal, trip)
                 ELSE IF ~SubmitAccepts(resp.status) THEN Ret(StatusFailed(resp), NilVal, trip)
                 ELSE IF ~dec.ok
                 THEN Ret(DecodeFailed(resp.body, "jobs.SubmitJobResponse"), NilVal, trip)
                 ELSE Ret(NilErr, [t |-> "submitted", job |-> dec.job], trip))

\* ValidateJobRequest, for a request that is not nil
ValidateJobRequest ==
    /\ CanCall
    /\ \E request \in SubmitRequests :
        Call("ValidateJobRequest", [request |-> request],
             Ret(IF request.JobStatement = "" /\ request.JobDataSet = ""
                    /\ request.JobLocalFile = ""
                 THEN Errorf("at least one job source must be specified (jobStatement, jobDataSet, or jobLocalFile)")
                 ELSE IF request.JobStatement # ""
                         /\ ~Contains(ToUpper(request.JobStatement), "JOB")
                 THEN Errorf("job statement must contain a JOB card")
                 ELSE IF request.JobDataSet # "" /\ ~isValidDatasetName(request.JobDataSet)
                 THEN Errorf("invalid dataset name: " \o request.JobDataSet)
                 ELSE NilErr,
                 NilVal, <<>>))

CancelJob ==
    /\ CanCall
    /\ \E correlator \in FewCorrelators, resp \in PlainResps :
        LET url == JobByCorrelatorEndpoint(PathEscape(correlator)) \o CancelEndpoint
            trip == <<Trip("PUT", url, resp)>>
        IN  Call("CancelJob", [correlator |-> correlator],
                 IF resp.neterr # "" THEN Ret(RequestFailed("PUT", url, resp), NilVal, trip)
                 ELSE IF ~NoContentOK(resp.status) THEN Ret(StatusFailed(resp), NilVal, trip)
                 ELSE Ret(NilErr, NilVal, trip))

PurgeJob ==
    /\ CanCall
    /\ \E correlator \in FewCorrelators, resp \in PlainResps :
        LET url == JobByCorrelatorEndpoint(PathEscape(correlator)) \o PurgeEndpoint
            trip == <<Trip("PUT", url, resp)>>
        IN  Call("PurgeJob", [correlator |-> correlator],
                 IF resp.neterr # "" THEN Ret(RequestFailed("PUT", url, resp), NilVal, trip)
                 ELSE IF ~NoContentOK(resp.status) THEN Ret(StatusFailed(resp), NilVal, trip)
                 ELSE Ret(NilErr, NilVal, trip))

DeleteJob ==
    /\ CanCall
    /\ \E correlator \in Correlators, resp \in PlainResps :
        LET p == parseCorrelator(correlator)
        IN  Call("DeleteJob", [correlator |-> correlator],
                 IF ~p.err.nil THEN Ret(InvalidCorrelator(p.err), NilVal, <<>>)
                 ELSE DeleteJobByNameID(p.jobName, p.jobID, resp))

DeleteJobByNameIDCall ==
    /\ CanCall
    /\ \E n \in {"A", "B#"}, i \in {"1", ""}, r \in PlainResps :
        Call("DeleteJobByNameID", [jobName |-> n, jobID |-> i],
             DeleteJobByNameID(n, i, r))

GetSpoolFilesCall ==
    /\ CanCall
    /\ \E n \in {"A"}, i \in {"1", ""}, r \in SpoolResps :
        Call("GetSpoolFiles", [jobName |-> n, jobID |-> i], GetSpoolFiles(n, i, r))

GetSpoolFileContentCall ==
    /\ CanCall
    /\ \E n \in {"A"}, i \in {"1"}, k \in {0, 1, 12}, r \in ContentResps :
        Call("GetSpoolFileContent", [jobName |-> n, jobID |-> i, spoolID |-> k],
             GetSpoolFileContent(n, i, k, r))

GetSpoolFilesByCorrelator ==
    /\ CanCall
    /\ \E correlator \in Correlators, resp \in SpoolResps :
        LET p == parseCorrelator(correlator)
        IN  Call("GetSpoolFilesByCorrelator", [correlator |-> correlator],
                 IF ~p.err.nil THEN Ret(InvalidCorrelator(p.err), NilVal, <<>>)
                 ELSE GetSpoolFiles(p.jobName, p.jobID, resp))

GetSpoolFileContentByCorrelator ==
    /\ CanCall
    /\ \E correlator \in Correlators, spoolID \in {1}, resp \in ContentResps :
        LET p == parseCorrelator(correlator)
        IN  Call("GetSpoolFileContentByCorrelator",
                 [correlator |-> correlator, spoolID |-> spoolID],
                 IF ~p.err.nil THEN Ret(InvalidCorrelator(p.err), StrVal(""), <<>>)
                 ELSE GetSpoolFileContent(p.jobName, p.jobID, spoolID, resp))

\* GetJobOutput; r1 answers the lookup by bare id, r2 the spool file list, rs the
\* content fetches
GetJobOutput ==
    /\ CanCall
    /\ \E correlator \in FewCorrelators, r1 \in LookupResps, r2 \in SpoolResps,
          rs \in SeqsOfLen(ContentResps, MaxSpool) :
        Call("GetJobOutput", [correlator |-> correlator],
             GetJobOutputOf(ResolveJob(correlator, r1, NilVal), r2, rs))

GetJobOutputByDDName ==
    /\ CanCall
    /\ \E correlator \in FewCorrelators, ddName \in DDNames, r1 \in LookupResps,
          r2 \in SpoolResps, r3 \in ContentResps :
        Call("GetJobOutputByDDName", [correlator |-> correlator, ddName |-> ddName],
             DDResolved(correlator, ddName, ResolveJob(correlator, r1, StrVal("")), r2, r3))

\* CloseJobManager, like every method of the manager, starts with the type
\* assertion jm.session.(*profile.Session) and then reads a field of the session
CloseJobManager ==
    /\ CanCall
    /\ \E manager \in Managers :
        IF manager = "session"
        THEN Call("CloseJobManager", [manager |-> manager], Ret(NilErr, NilVal, <<>>))
        ELSE Panic("CloseJobManager", [manager |-> manager])

\* WaitForJobCompletion up to the loop: startTime := time.Now()
WaitForJobCompletionCall ==
    /\ CanCall
    /\ \E c \in WaitCorrelators, t \in Timeouts, p \in PollIntervals, t0 \in ClockAtCall :
        /\ op' = "WaitForJobCompletion"
        /\ args' = [correlator |-> c, timeout |-> t, pollInterval |-> p]
        /\ pc' = "wait"
        /\ events' = <<>>
        /\ result' = NoResult
        /\ local' = [startTime |-> t0, status |-> "", err |-> NilErr, polls |-> 0]
        /\ now' = t0
        /\ UNCHANGED <<session, server, uploaded>>

\* An iteration of the loop that finds the timeout exceeded
WaitForJobCompletionTimeout ==
    /\ pc = "wait"
    /\ TimedOut(now - local.startTime, args.timeout)
    /\ pc' = "done"
    /\ result' = [err |-> Errorf("timeout waiting for job " \o args.correlator
                                 \o " to complete"),
                  val |-> StrVal("")]
    /\ UNCHANGED <<op, args, events, local, now, session, server, uploaded>>

\* An iteration of the loop that fetches the status: the fetch takes dt, and
\* the iteration ends in a return or in the sleep before the next iteration
WaitPolled(fetch, dt) ==
    /\ local' = [local EXCEPT !.status = fetch.val.s, !.err = fetch.err, !.polls = @ + 1]
    /\ IF FetchFailed(fetch.err)
       THEN /\ pc' = "done"
            /\ result' = [err |-> Errorf("failed to get job status: " \o fetch.err.text),
                          val |-> StrVal("")]
            /\ events' = events \o fetch.events
            /\ now' = now + dt
       ELSE IF isJobComplete(fetch.val.s)
       THEN /\ pc' = "done"
            /\ result' = [err |-> NilErr, val |-> StrVal(fetch.val.s)]
            /\ events' = events \o fetch.events
            /\ now' = now + dt
       ELSE /\ pc' = "wait"
            /\ result' = result
            /\ events' = events \o fetch.events \o <<Slept(args.pollInterval)>>
            /\ now' = now + dt + args.pollInterval

WaitForJobCompletionPoll ==
    /\ pc = "wait"
    /\ ~TimedOut(now - local.startTime, args.timeout)
    /\ local.polls < MaxPolls
    /\ \E rs \in LookupAndJob(args.correlator, WaitLookupResps, WaitResps),
          dt \in FetchTimes :
          WaitPolled(GetJobStatus(args.correlator, rs), dt)
    /\ UNCHANGED <<op, args, session, server, uploaded>>

ListDatasetsCall ==
    /\ CanCall
    /\ \E f \in DatasetFilters, r \in DatasetListResps :
        Call("ListDatasets", [filter |-> f], ListDatasets(f, r))

\* GetDatasetsByType puts the type in the filter; ListDatasets reads only the
\* Name, Volume, Owner and Limit of a filter
GetDatasetsByType ==
    /\ CanCall
    /\ \E datasetType \in {"PO", "PS"}, limit \in {0, 5}, resp \in DatasetListResps :
        Call("GetDatasetsByType", [datasetType |-> datasetType, limit |-> limit],
             ListDatasets(DatasetFilter("", datasetType, "", "", limit), resp))

GetDatasetCall ==
    /\ CanCall
    /\ \E n \in DatasetNames, r \in DatasetListResps :
        Call("GetDataset", [name |-> n], GetDataset(n, r))

GetDatasetInfo ==
    /\ CanCall
    /\ \E name \in DatasetNames, r1 \in DatasetInfoResps, r2 \in DatasetListResps :
        Call("GetDatasetInfo", [name |-> name],
             DirectOrListed(name, getDatasetInfoDirect(name, r1), r2))

ExistsCall ==
    /\ CanCall
    /\ \E n \in DatasetNames, r \in DatasetListResps :
        Call("Exists", [name |-> n], Exists(n, r))

\* CreateDataset reads request.Name without a test for nil
CreateDataset ==
    /\ CanCall
    /\ \/ Panic("CreateDataset", [request |-> NilRequest])
       \/ \E request \in CreateDatasetRequests, resp \in PlainResps :
        LET url == DatasetByNameEndpoint(PathEscape(request.Name))
            trip == <<TripWith("POST", url, "application/json", CreateBody(request), resp)>>
        IN  Call("CreateDataset", [request |-> request],
                 IF resp.neterr # "" THEN Ret(RequestFailed("POST", url, resp), NilVal, trip)
                 ELSE IF ~CreatedOK(resp.status) THEN Ret(StatusFailed(resp), NilVal, trip)
                 ELSE Ret(NilErr, NilVal, trip))

DeleteDataset ==
    /\ CanCall
    /\ \E name \in DatasetNames, resp \in PlainResps :
        LET url == DatasetByNameEndpoint(PathEscape(name))
            trip == <<Trip("DELETE", url, resp)>>
        IN  Call("DeleteDataset", [name |-> name],
                 IF resp.neterr # "" THEN Ret(RequestFailed("DELETE", url, resp), NilVal, trip)
                 ELSE IF ~NoContentOK(resp.status) THEN Ret(StatusFailed(resp), NilVal, trip)
                 ELSE Ret(NilErr, NilVal, trip))

\* UploadContent reads request.MemberName without a test for nil
UploadContentCall ==
    /\ CanCall
    /\ \/ Panic("UploadContent", [request |-> NilRequest])
       \/ \E n \in DatasetNames, m \in {"", "M"}, r \in UploadResps :
        Call("UploadContent", [request |-> UploadRequest(n, m, "x", "", FALSE)],
             UploadContent(UploadRequest(n, m, "x", "", FALSE), r))

\* DownloadContent reads request.MemberName without a test for nil
DownloadContentCall ==
    /\ CanCall
    /\ \/ Panic("DownloadContent", [request |-> NilRequest])
       \/ \E n \in DatasetNames, m \in {"", "M"}, enc \in {"", "UTF-8"}, r \in ContentResps :
        Call("DownloadContent", [request |-> DownloadRequest(n, m, enc)],
             DownloadContent(DownloadRequest(n, m, enc), r))

ListMembersCall ==
    /\ CanCall
    /\ \E n \in DatasetNames, r \in MemberListResps :
        Call("ListMembers", [datasetName |-> n], ListMembers(n, r))

GetMember ==
    /\ CanCall
    /\ \E datasetName \in DatasetNames, memberName \in {"M", "m#"}, resp \in ContentResps :
        LET url == MemberURL(datasetName, memberName)
            trip == <<Trip("GET", url, resp)>>
        IN  Call("GetMember", [datasetName |-> datasetName, memberName |-> memberName],
                 IF resp.neterr # "" THEN Ret(RequestFailed("GET", url, resp), NilVal, trip)
                 ELSE IF resp.status # StatusOK THEN Ret(StatusFailed(resp), NilVal, trip)
                 ELSE Ret(NilErr, [t |-> "member", name |-> memberName], trip))

DeleteMember ==
    /\ CanCall
    /\ \E datasetName \in DatasetNames, memberName \in {"M", "m#"}, resp \in PlainResps :
        LET url == MemberURL(datasetName, memberName)
            trip == <<Trip("DELETE", url, resp)>>
        IN  Call("DeleteMember", [datasetName |-> datasetName, memberName |-> memberName],
                 IF resp.neterr # "" THEN Ret(RequestFailed("DELETE", url, resp), NilVal, trip)
                 ELSE IF ~NoContentOK(resp.status) THEN Ret(StatusFailed(resp), NilVal, trip)
                 ELSE Ret(NilErr, NilVal, trip))

CopySequentialDataset ==
    /\ CanCall
    /\ \E sourceName \in DatasetNames, targetName \in TargetNames, resp \in PlainResps :
        Call("CopySequentialDataset", [sourceName |-> sourceName, targetName |-> targetName],
             PutFromDataset(DatasetByNameEndpoint(PathEscape(targetName)),
                            FromDatasetBody("copy", sourceName, NoMember), resp))

CopyMember ==
    /\ CanCall
    /\ \E sourceName \in DatasetNames, sourceMember \in {"M"}, targetName \in TargetNames,
          targetMember \in {"M", "N"}, resp \in PlainResps :
        Call("CopyMember",
             [sourceName |-> sourceName, sourceMember |-> sourceMember,
              targetName |-> targetName, targetMember |-> targetMember],
             PutFromDataset(MemberURL(targetName, targetMember),
                            FromDatasetBody("copy", sourceName,
                                            [set |-> TRUE, name |-> sourceMember]), resp))

RenameDataset ==
    /\ CanCall
    /\ \E oldName \in DatasetNames, newName \in TargetNames, resp \in PlainResps :
        Call("RenameDataset", [oldName |-> oldName, newName |-> newName],
             PutFromDataset(DatasetByNameEndpoint(PathEscape(newName)),
                            FromDatasetBody("rename", oldName, NoMember), resp))

CloseDatasetManager ==
    /\ CanCall
    /\ \E manager \in Managers :
        IF manager = "session"
        THEN Call("CloseDatasetManager", [manager |-> manager], Ret(NilErr, NilVal, <<>>))
        ELSE Panic("CloseDatasetManager", [manager |-> manager])

UploadText ==
    /\ CanCall
    /\ \E datasetName \in DatasetNames, content \in {"x"}, resp \in UploadResps :
        Call("UploadText", [datasetName |-> datasetName, content |-> content],
             UploadContent(UploadRequest(datasetName, "", content, "UTF-8", TRUE), resp))

DownloadText ==
    /\ CanCall
    /\ \E datasetName \in DatasetNames, resp \in ContentResps :
        Call("DownloadText", [datasetName |-> datasetName],
             DownloadContent(DownloadRequest(datasetName, "", "UTF-8"), resp))

DownloadTextFromMember ==
    /\ CanCall
    /\ \E datasetName \in DatasetNames, memberName \in {"M"}, resp \in ContentResps :
        Call("DownloadTextFromMember", [datasetName |-> datasetName, memberName |-> memberName],
             DownloadContent(DownloadRequest(datasetName, memberName, "UTF-8"), resp))

ValidateDatasetNameCall ==
    /\ CanCall
    /\ \E n \in ValidatorNames :
        Call("ValidateDatasetName", [name |-> n], Ret(ValidateDatasetName(n), NilVal, <<>>))

ValidateMemberNameCall ==
    /\ CanCall
    /\ \E n \in ValidatorNames :
        Call("ValidateMemberName", [name |-> n], Ret(ValidateMemberName(n), NilVal, <<>>))

\* UploadTextToMember: up is what UploadContent returns
UploadTextToMember ==
    /\ CanCall
    /\ \E datasetName \in DatasetNames, memberName \in MemberNames, content \in {"x"},
          resp \in UploadResps :
        LET up == UploadContent(UploadRequest(datasetName, memberName, content, "UTF-8", TRUE),
                                resp)
        IN  Call("UploadTextToMember",
                 [datasetName |-> datasetName, memberName |-> memberName, content |-> content],
                 IF ~ValidateMemberName(memberName).nil
                 THEN Ret(InvalidMemberName(memberName), NilVal, <<>>)
                 ELSE IF ~up.err.nil
                 THEN Ret(DirectoryGuidance(datasetName, memberName, up.err, up.err), NilVal,
                          up.events)
                 ELSE Ret(NilErr, NilVal, up.events))

\* UploadTextToMemberWithValidation up to the loop of uploadWithRetry
UploadChecked(n, m, checks) ==
    /\ op' = "UploadTextToMemberWithValidation"
    /\ args' = [datasetName |-> n, memberName |-> m, content |-> "x"]
    /\ pc' = IF checks.go THEN "upload" ELSE "done"
    /\ events' = checks.ret.events
    /\ result' = [err |-> checks.ret.err, val |-> NilVal]
    /\ local' = [attempt |-> 1, lastError |-> NilErr, err |-> NilErr,
                 memberExists |-> checks.memberExists]
    /\ now' = 0
    /\ UNCHANGED <<session, server, uploaded>>

UploadTextToMemberWithValidationCall ==
    /\ CanCall
    /\ \E n \in DatasetNames, m \in FewMemberNames, r1 \in PDSListResps,
          r2 \in PDSListResps, r3 \in DirectoryResps, r4 \in DirectoryResps :
          UploadChecked(n, m, ChecksBeforeUpload(n, m, r1, r2, r3, r4))

\* One iteration of the loop of uploadWithRetry, once UploadContent has returned
\* up: again tells whether the loop goes on, and when it does not, err is what
\* uploadWithRetry returns and UploadTextToMemberWithValidation returns with it
Attempted(up, again, err) ==
    /\ events' = events \o up.events
                 \o (IF again THEN <<Slept(waitTime(local.attempt))>> ELSE <<>>)
    /\ now' = now + (IF again THEN waitTime(local.attempt) ELSE 0)
    /\ pc' = IF again THEN "upload" ELSE "done"
    /\ local' = [local EXCEPT !.attempt = IF again THEN @ + 1 ELSE @,
                              !.lastError = IF up.err.nil THEN @ ELSE up.err,
                              !.err = IF again THEN @ ELSE err]
    /\ result' = IF again THEN result
                 ELSE [err |-> UploadOutcome(args.datasetName, args.memberName, err),
                       val |-> NilVal]

\* ... once the error is classified: retry tells whether it is a retryable one
Classified(up, retry) ==
    Attempted(up, retry /\ local.attempt < maxRetries,
              IF up.err.nil \/ ~retry THEN up.err ELSE RetriesExhausted(up.err))

UploadReturned(up) ==
    Classified(up, ~up.err.nil /\ isRetryable(ToLower(up.err.text)))

UploadAttempt ==
    /\ pc = "upload"
    /\ local.attempt <= maxRetries
    /\ \E r \in UploadResps :
          UploadReturned(UploadContent(UploadRequest(args.datasetName, args.memberName,
                                                     args.content, "UTF-8", TRUE), r))
    /\ UNCHANGED <<op, args, session, server, uploaded>>

\* A call on the session that runs to its return in one step and leaves s
SessionCall(name, a, val, s) ==
    /\ CanCall
    /\ op' = name
    /\ args' = a
    /\ pc' = "done"
    /\ events' = <<>>
    /\ result' = [err |-> NilErr, val |-> val]
    /\ local' = NoLocal
    /\ now' = 0
    /\ session' = s
    /\ UNCHANGED <<server, uploaded>>

\* NewSession reads p.RejectUnauthorized without a test for nil
NewSessionCall ==
    /\ CanCall
    /\ \/ Panic("NewSession", [profile |-> NilRequest])
       \/ \E p \in Profiles :
            SessionCall("NewSession", [profile |-> p], [t |-> "session"], NewSession(p))

AddHeaderCall ==
    /\ CanCall
    /\ \E key \in HeaderKeys, value \in HeaderValues :
        SessionCall("AddHeader", [key |-> key, value |-> value], NilVal,
                    AddHeader(session, key, value))

RemoveHeaderCall ==
    /\ CanCall
    /\ \E key \in HeaderKeys :
        SessionCall("RemoveHeader", [key |-> key], NilVal, RemoveHeader(session, key))

\* The caller takes the result; the client is ready for its next call
Return ==
    /\ pc = "done"
    /\ op' = "none"
    /\ args' = [none |-> TRUE]
    /\ pc' = "idle"
    /\ events' = <<>>
    /\ result' = NoResult
    /\ local' = NoLocal
    /\ now' = 0
    /\ UNCHANGED <<session, server, uploaded>>

Next ==
    \/ ListJobsCall
    \/ GetJobCall
    \/ GetJobStatusCall
    \/ GetJobInfo
    \/ GetJobByNameIDCall
    \/ GetJobByCorrelator
    \/ SubmitJob
    \/ ValidateJobRequest
    \/ CancelJob
    \/ PurgeJob
    \/ DeleteJob
    \/ DeleteJobByNameIDCall
    \/ GetSpoolFilesCall
    \/ GetSpoolFileContentCall
    \/ GetSpoolFilesByCorrelator
    \/ GetSpoolFileContentByCorrelator
    \/ GetJobOutput
    \/ GetJobOutputByDDName
    \/ CloseJobManager
    \/ WaitForJobCompletionCall
    \/ WaitForJobCompletionTimeout
    \/ WaitForJobCompletionPoll
    \/ ListDatasetsCall
    \/ GetDatasetsByType
    \/ GetDatasetCall
    \/ GetDatasetInfo
    \/ ExistsCall
    \/ CreateDataset
    \/ DeleteDataset
    \/ UploadContentCall
    \/ DownloadContentCall
    \/ ListMembersCall
    \/ GetMember
    \/ DeleteMember
    \/ CopySequentialDataset
    \/ CopyMember
    \/ RenameDataset
    \/ CloseDatasetManager
    \/ UploadText
    \/ DownloadText
    \/ DownloadTextFromMember
    \/ ValidateDatasetNameCall
    \/ ValidateMemberNameCall
    \/ UploadTextToMember
    \/ UploadTextToMemberWithValidationCall
    \/ UploadAttempt
    \/ Return

Spec == Init /\ [][Next]_vars

\* The managers on a session whose headers their caller changes between calls
SharedNext ==
    \/ Next
    \/ AddHeaderCall
    \/ RemoveHeaderCall

SharedSpec == Init /\ [][SharedNext]_vars

\* WaitForJobCompletion alone, under the assumptions of its termination: every
\* status fetch returns, and the clock advances in every iteration that goes
\* on to the next one
AdvancingPoll == WaitForJobCompletionPoll /\ (pc' = "wait" => now' > now)

WaitNext ==
    \/ WaitForJobCompletionCall
    \/ WaitForJobCompletionTimeout
    \/ AdvancingPoll
    \/ Return

WaitSpec ==
    /\ Init /\ [][WaitNext]_vars
    /\ WF_vars(WaitForJobCompletionTimeout)
    /\ WF_vars(AdvancingPoll)

\* The client against the storing server, its caller keeping what it uploaded
\* under the dataset and member it named.  A call that returns in one step:
StoredCall(name, a, ret, store, kept) ==
    /\ CanCall
    /\ op' = name
    /\ args' = a
    /\ pc' = "done"
    /\ events' = ret.events
    /\ result' = [err |-> ret.err, val |-> ret.val]
    /\ local' = NoLocal
    /\ now' = 0
    /\ server' = store
    /\ uploaded' = kept
    /\ UNCHANGED session

\* The caller's record once an upload under key has returned err
Kept(key, content, err) ==
    IF ~err.nil THEN uploaded
    ELSE [k \in (DOMAIN uploaded) \cup {key} |-> IF k = key THEN content ELSE uploaded[k]]

UploadTextStored ==
    /\ CanCall
    /\ \E datasetName \in DatasetNames, content \in Contents, resp \in PutAnswers :
        LET up == UploadContent(UploadRequest(datasetName, "", content, "UTF-8", TRUE), resp)
        IN  StoredCall("UploadText", [datasetName |-> datasetName, content |-> content], up,
                       StoreAfter(server, up.events, resp),
                       Kept(<<datasetName, "">>, content, up.err))

UploadTextToMemberStored ==
    /\ CanCall
    /\ \E datasetName \in DatasetNames, memberName \in FewMemberNames, content \in Contents,
          resp \in PutAnswers :
        LET up == UploadContent(UploadRequest(datasetName, memberName, content, "UTF-8", TRUE),
                                resp)
            ret == IF ~ValidateMemberName(memberName).nil
                   THEN Ret(InvalidMemberName(memberName), NilVal, <<>>)
                   ELSE IF ~up.err.nil
                   THEN Ret(DirectoryGuidance(datasetName, memberName, up.err, up.err), NilVal,
                            up.events)
                   ELSE Ret(NilErr, NilVal, up.events)
        IN  StoredCall("UploadTextToMember",
                       [datasetName |-> datasetName, memberName |-> memberName,
                        content |-> content], ret,
                       StoreAfter(server, ret.events, resp),
                       Kept(<<datasetName, memberName>>, content, ret.err))

\* The GET that DownloadContent sends for request, whatever the answer
DownloadURL(request) == DownloadContent(request, Http(StatusOK, EmptyBody)).events[1].url

DownloadTextStored ==
    /\ CanCall
    /\ \E datasetName \in DatasetNames :
        LET request == DownloadRequest(datasetName, "", "UTF-8")
        IN  \E resp \in GetAnswers(server, PathOf(DownloadURL(request))) :
                StoredCall("DownloadText", [datasetName |-> datasetName],
                           DownloadContent(request, resp), server, uploaded)

DownloadTextFromMemberStored ==
    /\ CanCall
    /\ \E datasetName \in DatasetNames, memberName \in FewMemberNames :
        LET request == DownloadRequest(datasetName, memberName, "UTF-8")
        IN  \E resp \in GetAnswers(server, PathOf(DownloadURL(request))) :
                StoredCall("DownloadTextFromMember",
                           [datasetName |-> datasetName, memberName |-> memberName],
                           DownloadContent(request, resp), server, uploaded)

RoundTripNext ==
    \/ UploadTextStored
    \/ UploadTextToMemberStored
    \/ DownloadTextStored
    \/ DownloadTextFromMemberStored
    \/ Return

RoundTripSpec == Init /\ [][RoundTripNext]_vars

\* The pure functions, applied to inputs of their own
IsJobCompleteCall ==
    /\ CanCall
    /\ \E status \in StatusInputs :
        Call("isJobComplete", [status |-> status],
             Ret(NilErr, BoolVal(isJobComplete(status)), <<>>))

IsValidDatasetNameCall ==
    /\ CanCall
    /\ \E dataset \in ValidatorNames :
        Call("isValidDatasetName", [dataset |-> dataset],
             Ret(NilErr, BoolVal(isValidDatasetName(dataset)), <<>>))

PureNext ==
    \/ IsJobCompleteCall
    \/ IsValidDatasetNameCall
    \/ ValidateDatasetNameCall
    \/ ValidateMemberNameCall
    \/ Return

PureSpec == Init /\ [][PureNext]_vars

\* The operations on profiles and sessions.  The managers only read the session
\* they were made from, so these operations are explored on their own.
SessionNext ==
    \/ NewSessionCall
    \/ AddHeaderCall
    \/ RemoveHeaderCall
    \/ Return

SessionSpec == Init /\ [][SessionNext]_vars

-----------------------------------------------------------------------------
(* Properties *)

\* C1: a WaitForJobCompletion call whose status fetches all succeed with a
\* status that is not complete never returns success: it returns success only
\* with a fetched status that isJobComplete accepts, it goes on looping only
\* after a status that is not complete, and once the time elapsed since the
\* call started exceeds the timeout its next step returns the error
\* "timeout waiting for job <correlator> to complete" without another fetch;
\* that error is returned only when the elapsed time exceeds the timeout.
C1_WaitTimesOutNeverSucceeds ==
    [][op' = "WaitForJobCompletion" =>
        /\ (pc' = "done" /\ result'.err.nil) =>
              /\ isJobComplete(local'.status)
              /\ result'.val = StrVal(local'.status)
              /\ IsTrip(events'[Len(events')])
              /\ JobFromJSON(events'[Len(events')].resp.body.json).job.Status
                     = local'.status
        /\ (pc' = "wait" /\ local'.polls > 0) =>
              local'.err.nil /\ ~isJobComplete(local'.status)
        /\ (pc = "wait" /\ now - local.startTime > args.timeout) =>
              /\ pc' = "done"
              /\ result' = [err |-> Errorf("timeout waiting for job " \o args.correlator
                                           \o " to complete"),
                            val |-> StrVal("")]
              /\ events' = events
        /\ (pc' = "done" /\ HasPrefix(result'.err.text, "timeout waiting")) =>
              now' - local'.startTime > args'.timeout
    ]_vars

\* A call that polled twice, saw no complete status, and timed out
C1_TimedOutAfterPolls ==
    /\ op = "WaitForJobCompletion"
    /\ pc = "done"
    /\ args.timeout >= 0
    /\ local.polls >= 2
    /\ ~isJobComplete(local.status)
    /\ result.err.text = "timeout waiting for job A:1 to complete"

\* C2: WaitForJobCompletion ends on the first status fetch that fails: the call
\* is over, it returns "failed to get job status: " followed by the text of the
\* fetch error and the empty status, the last thing it did is the failed fetch
\* (no sleep and no fetch follows), and every fetch before succeeded.
C2_WaitFailsOnFirstFetchError ==
    (op = "WaitForJobCompletion" /\ ~local.err.nil) =>
        /\ pc = "done"
        /\ result = [err |-> Errorf("failed to get job status: " \o local.err.text),
                     val |-> StrVal("")]
        /\ \A i \in 1..Len(events) : IsSleep(events[i]) => i < Len(events)
        /\ Cardinality({i \in 1..Len(events) : IsSleep(events[i])}) = local.polls - 1

\* A call that failed on its second fetch, with the timeout not yet reached
C2_FailedOnSecondFetch ==
    /\ op = "WaitForJobCompletion"
    /\ pc = "done"
    /\ local.polls = 2
    /\ ~local.err.nil
    /\ now - local.startTime < args.timeout
    /\ HasPrefix(result.err.text, "failed to get job status: API request failed with status 404")

\* C3: uploadWithRetry makes at most 3 upload attempts; it sleeps only directly
\* after a failed attempt that is not the third, the sleep after failed attempt
\* n lasts n x 2 seconds, and every attempt after the first directly follows
\* such a sleep.
C3_RetryBoundedLinearDelay ==
    op = "UploadTextToMemberWithValidation" =>
        LET isPut(i) == IsTrip(events[i]) /\ events[i].method = "PUT"
            puts(i) == Cardinality({j \in 1..i : isPut(j)})
            succeeded(i) == events[i].resp.neterr = ""
                            /\ events[i].resp.status \in {200, 201, 204}
        IN  /\ puts(Len(events)) <= 3
            /\ \A i \in 1..Len(events) :
                   IsSleep(events[i]) =>
                       /\ i > 1
                       /\ isPut(i - 1)
                       /\ ~succeeded(i - 1)
                       /\ puts(i) < 3
                       /\ events[i].d = puts(i) * 2
            /\ \A i \in 1..Len(events) :
                   (isPut(i) /\ puts(i) > 1) => IsSleep(events[i - 1])

\* Three attempts failed: the call slept 2 and then 4 seconds and gave up
C3_ThreeAttemptsTwoSleeps ==
    /\ op = "UploadTextToMemberWithValidation"
    /\ pc = "done"
    /\ Cardinality({i \in 1..Len(events) :
                       IsTrip(events[i]) /\ events[i].method = "PUT"}) = 3
    /\ \E i \in 1..Len(events) : \E j \in (i + 1)..Len(events) :
           events[i] = Slept(2) /\ events[j] = Slept(4)
    /\ HasPrefix(local.err.text, "upload failed after 3 attempts: ")

\* C4: in uploadWithRetry a failed attempt is followed by another one only when
\* the text of its error contains, in any case, one of isrz002, i/o error,
\* lmfind error, directory, timeout, connection; after any other error the
\* wrapper has returned that very error, and the failed upload request is the
\* last thing it did (no sleep, no further request).
C4_RetryOnlyOnMatchingText ==
    (op = "UploadTextToMemberWithValidation" /\ ~local.lastError.nil) =>
        LET text == ToLower(local.lastError.text)
            matches == \E sub \in {"isrz002", "i/o error", "lmfind error", "directory",
                                   "timeout", "connection"} : Contains(text, sub)
        IN  /\ pc = "upload" => matches
            /\ ~matches =>
                   /\ pc = "done"
                   /\ local.err = local.lastError
                   /\ IsTrip(events[Len(events)])
                   /\ events[Len(events)].method = "PUT"

\* The second attempt failed with an error that is not retried
C4_StoppedOnOtherError ==
    /\ op = "UploadTextToMemberWithValidation"
    /\ pc = "done"
    /\ local.attempt = 2
    /\ local.err.text = "API request failed with status 403: denied"
    /\ \E i \in 1..Len(events) : IsSleep(events[i])

\* C5: a job submission with none or with more than one of JobStatement,
\* JobDataSet and JobLocalFile set fails with an error and sends no request.
C5_ExactlyOneSource ==
    (op \in {"SubmitJob", "ValidateJobRequest"} /\ pc = "done") =>
        LET sources == Cardinality({f \in {"JobStatement", "JobDataSet", "JobLocalFile"} :
                                       args.request[f] # ""})
        IN  sources # 1 => (~result.err.nil /\ events = <<>>)

\* C6: ListJobs gives the same jobs for a 200 response that is {"jobs": L} and
\* for one that is the bare array L, for every list L, and fails to decode only
\* a body of neither shape.
C6_BothShapesParseAlike ==
    (op = "ListJobs" /\ pc = "done" /\ events[1].resp.neterr = ""
     /\ events[1].resp.status = 200) =>
        LET json == events[1].resp.body.json
            wrapper == /\ json.kind = "object"
                       /\ HasMember(json, "jobs")
                       /\ json.members["jobs"].kind = "array"
                       /\ JobsFromJSON(json.members["jobs"]).ok
            bare == json.kind = "array" /\ JobsFromJSON(json).ok
        IN  /\ wrapper => /\ result.err.nil
                          /\ result.val.jobs = JobsFromJSON(json.members["jobs"]).jobs
            /\ bare => /\ result.err.nil
                       /\ result.val.jobs = JobsFromJSON(json).jobs
            /\ ~result.err.nil => (~wrapper /\ ~bare)

\* C7: every job operation that takes a job identifier accepts a bare job id:
\* it does not reject it for not being of the form jobname:jobid.
C7_BareIdAccepted ==
    (pc = "done"
     /\ op \in {"GetJob", "GetJobStatus", "GetJobInfo", "DeleteJob",
                "GetSpoolFilesByCorrelator", "GetSpoolFileContentByCorrelator",
                "GetJobOutput", "GetJobOutputByDDName", "WaitForJobCompletion"}
     /\ args.correlator # "" /\ ~Contains(args.correlator, ":")) =>
        ~Contains(result.err.text, "correlator must be in format 'jobname:jobid'")

C9_OutputDropsFailedFetches ==
    (op = "GetJobOutput" /\ pc = "done") =>
        \A i \in 1..Len(events) :
            (/\ HasSuffix(events[i].url, "/files")
             /\ events[i].resp.neterr = ""
             /\ events[i].resp.status = 200
             /\ SpoolFilesFromJSON(events[i].resp.body.json).ok) =>
                LET files == SpoolFilesFromJSON(events[i].resp.body.json).files
                    ok(k) == events[i + k].resp.neterr = ""
                             /\ events[i + k].resp.status = 200
                    kept == {k \in 1..Len(files) : ok(k)}
                IN  /\ result.err.nil
                    /\ Len(events) = i + Len(files)
                    /\ DOMAIN result.val.m = {files[k].DDName : k \in kept}
                    /\ \A k \in kept :
                           (\A j \in kept : files[j].DDName = files[k].DDName => j <= k)
                               => result.val.m[files[k].DDName] = events[i + k].resp.body.raw

\* Of two spool files one content fetch failed: success, with one entry
C9_OneOfTwoDropped ==
    /\ op = "GetJobOutput"
    /\ pc = "done"
    /\ result.err.nil
    /\ Len(events) >= 3
    /\ events[Len(events) - 1].resp.status = 500
    /\ events[Len(events)].resp.status = 200
    /\ DOMAIN result.val.m = {"Y"}

\* C10: whenever a round trip of a finished call received a status that the
\* operation does not accept, the call returned an error whose text carries
\* "API request failed with status <code>: <body>" with the status code and the
\* body as received, and no value. Two calls have rules of their own and are
\* not counted: GetJobOutput, which drops failed content fetches, and
\* UploadTextToMemberWithValidation, which retries.
C10_StatusErrorVerbatim ==
    (pc = "done" /\ op \notin {"GetJobOutput", "UploadTextToMemberWithValidation"}) =>
        \A i \in 1..Len(events) :
            LET r == events[i].resp
                accepted ==
                    IF op = "SubmitJob" THEN {200, 201, 202}
                    ELSE IF op \in {"CancelJob", "PurgeJob", "DeleteJob", "DeleteJobByNameID",
                                    "DeleteDataset", "DeleteMember"}
                    THEN {200, 204}
                    ELSE IF op \in {"CreateDataset", "CopySequentialDataset", "CopyMember",
                                    "RenameDataset"}
                    THEN {200, 201}
                    ELSE IF events[i].method = "PUT" THEN {200, 201, 204}
                    ELSE {200}
            IN  (IsTrip(events[i]) /\ r.neterr = "" /\ r.status \notin accepted) =>
                    /\ Contains(result.err.text, "API request failed with status "
                                                 \o Itoa(r.status) \o ": " \o r.body.raw)
                    /\ result.val \in {NilVal, StrVal(""), BoolVal(FALSE)}

\* C11: SubmitJob treats exactly the statuses 200, 201 and 202 as success: for
\* them it never reports a refused status and returns the submission response
\* decoded from the body; for every other status it returns the error
\* "API request failed with status <code>: <body>" and no submission response.
C11_SubmitSuccessStatuses ==
    (op = "SubmitJob" /\ pc = "done" /\ events # <<>> /\ events[1].resp.neterr = "") =>
        LET r == events[1].resp
            dec == JobFromJSON(r.body.json)
        IN  IF r.status \in {200, 201, 202}
            THEN /\ ~Contains(result.err.text, "API request failed with status")
                 /\ dec.ok => /\ result.err.nil
                              /\ result.val = [t |-> "submitted", job |-> dec.job]
                 /\ ~dec.ok => ~result.err.nil /\ result.val = NilVal
            ELSE /\ result.err = Errorf("API request failed with status "
                                        \o Itoa(r.status) \o ": " \o r.body.raw)
                 /\ result.val = NilVal

\* A submission answered 202 with a job body returns that job
C11_AcceptedWith202 ==
    /\ op = "SubmitJob" /\ pc = "done"
    /\ Len(events) = 1 /\ events[1].resp.status = 202
    /\ result.err.nil
    /\ result.val = [t |-> "submitted", job |-> Job("1", "A", "U", "INPUT")]

\* C12: no operation aborts the calling program: whatever the input (a nil
\* request pointer, a manager without a session), a call ends by returning to
\* its caller and never in a panic.
C12_NoOperationAborts == pc # "panicked"

\* The number of HTTP round trips among the events evs
Trips(evs) == Cardinality({i \in 1..Len(evs) : IsTrip(evs[i])})

\* Whether a job identifier has the correlator form
IsCorrelator(id) == Contains(id, ":")

C14_BaseURLFromProfile ==
    (op = "NewSession" /\ pc = "done" /\ args.profile.Host # "" /\ args.profile.Port > 0) =>
        LET p == args.profile
            protocol == IF p.Protocol # "" THEN p.Protocol
                        ELSE IF p.Port \in {80, 8080} THEN "http" ELSE "https"
            port == IF p.Port \in {80, 443} THEN "" ELSE ":" \o Itoa(p.Port)
            basePath == IF p.BasePath = "" THEN "/zosmf"
                        ELSE IF HasPrefix(p.BasePath, "/") THEN p.BasePath
                        ELSE "/" \o p.BasePath
        IN  session.BaseURL = protocol \o "://" \o p.Host \o port \o basePath

\* C20: after AddHeader(k, v) the header map of the session maps k to v, after
\* RemoveHeader(k) it has no entry for k; both leave every other header entry,
\* the base URL and the credentials (every other field of the session) as they
\* were, and RemoveHeader of an absent key changes nothing.
C20_HeaderMutationFrame ==
    [][/\ (pc = "idle" /\ op' = "AddHeader") =>
            /\ DOMAIN session'.Headers = (DOMAIN session.Headers) \cup {args'.key}
            /\ session'.Headers[args'.key] = args'.value
            /\ \A k \in (DOMAIN session.Headers) \ {args'.key} :
                   session'.Headers[k] = session.Headers[k]
            /\ [session' EXCEPT !.Headers = session.Headers] = session
       /\ (pc = "idle" /\ op' = "RemoveHeader") =>
            /\ DOMAIN session'.Headers = (DOMAIN session.Headers) \ {args'.key}
            /\ \A k \in DOMAIN session'.Headers : session'.Headers[k] = session.Headers[k]
            /\ [session' EXCEPT !.Headers = session.Headers] = session
            /\ args'.key \notin DOMAIN session.Headers => session' = session
      ]_vars

\* A header was added, the default Accept header was removed, and the
\* Authorization header that NewSession set is still there
C20_AddedThenRemoved ==
    /\ op = "RemoveHeader" /\ pc = "done" /\ args.key = "Accept"
    /\ "Accept" \notin DOMAIN session.Headers
    /\ "X-CSRF-ZOSMF-HEADER" \in DOMAIN session.Headers
    /\ session.Headers["X-CSRF-ZOSMF-HEADER"] = "true"
    /\ "Authorization" \in DOMAIN session.Headers
    /\ session.Headers["Authorization"] = "Basic VTpwdw=="
    /\ session.BaseURL = "https://zos/zosmf"

\* C15: isJobComplete(status) is true exactly when the upper-cased status
\* contains one of OUTPUT, CC 0000, CC 0001, CC 0002, CC 0003, CC 0004, ABEND;
\* so it is true for each of the seven words in any letter case and false for
\* ACTIVE, INPUT and RUNNING.
C15_CompleteIffContainsWord ==
    (op = "isJobComplete" /\ pc = "done") =>
        LET words == {"OUTPUT", "CC 0000", "CC 0001", "CC 0002", "CC 0003", "CC 0004", "ABEND"}
            upper == ToUpper(args.status)
        IN  /\ result.val.b = (\E w \in words : Contains(upper, w))
            /\ upper \in words => result.val.b
            /\ upper \in {"ACTIVE", "INPUT", "RUNNING"} => ~result.val.b

\* isJobComplete has answered true for a lower-case "abend"
C15_LowerCaseAbendComplete ==
    /\ op = "isJobComplete" /\ pc = "done"
    /\ args.status = "abend"
    /\ result.val.b

\* The character rules of a dataset name: the first character is one of
\* A-Z @ # $, every character is one of A-Z 0-9 @ # $ - ., there are no two
\* periods and no two hyphens in a row, and no period at either end
NameRulesHold(name) ==
    LET first == {"@", "#", "$"}
        later == {"@", "#", "$", "-", "."}
        n     == Len(name)
    IN  /\ n >= 1
        /\ IsUpper(Char(name, 1)) \/ Char(name, 1) \in first
        /\ \A i \in 1..n : IsUpper(Char(name, i)) \/ IsDigit(Char(name, i)) \/ Char(name, i) \in later
        /\ \A i \in 1..(n - 1) : Char(name, i) \in {".", "-"} => Char(name, i + 1) # Char(name, i)
        /\ Char(name, 1) # "." /\ Char(name, n) # "."

\* C16: ValidateDatasetName accepts a name if and only if it has 1 to 44
\* characters and keeps the character rules; TEST.DATA is valid, and the empty
\* name, a name of 45 characters, lower-case names, a leading digit, a leading
\* or trailing period, '..' and '--' are invalid.
C16_DatasetNameAcceptedIff ==
    (op = "ValidateDatasetName" /\ pc = "done") =>
        /\ result.err.nil = (Len(args.name) \in 1..44 /\ NameRulesHold(args.name))
        /\ args.name = "TEST.DATA" => result.err.nil
        /\ args.name \in {"", "a", "aa", "1A", ".A", "A.", "A..B", "A--B",
                          "ABCDEFGH.ABCDEFGH.ABCDEFGH.ABCDEFGH.ABCDEFGHI"} => ~result.err.nil

\* ValidateDatasetName has accepted a name of exactly 44 characters
C16_LongestNameAccepted ==
    /\ op = "ValidateDatasetName" /\ pc = "done"
    /\ Len(args.name) = 44
    /\ result.err.nil

\* C17: ValidateMemberName accepts a name if and only if it has 1 to 8
\* characters and keeps every character rule of a dataset name, two hyphens in
\* a row included; MEMBER1 is valid and TOOLONG12 is invalid.
C17_MemberNameAcceptedIff ==
    (op = "ValidateMemberName" /\ pc = "done") =>
        /\ result.err.nil = (Len(args.name) \in 1..8 /\ NameRulesHold(args.name))
        /\ args.name = "MEMBER1" => result.err.nil
        /\ args.name = "TOOLONG12" => ~result.err.nil

\* C18: CopySequentialDataset, CopyMember and RenameDataset each send exactly
\* one request, a PUT to the path of the target (/restfiles/ds/<target>, or
\* /restfiles/ds/<target>(<targetMember>) for a member copy), whose JSON body
\* holds the request ("copy" or "rename") and, under "from-dataset", the source
\* as "dsn", with "member" only for a member copy; the path is never that of
\* the source unless source and target are the same.
C18_OnePutToTarget ==
    (op \in {"CopySequentialDataset", "CopyMember", "RenameDataset"} /\ pc = "done") =>
        LET member == op = "CopyMember"
            source == IF op = "RenameDataset" THEN args.oldName ELSE args.sourceName
            target == IF op = "RenameDataset" THEN args.newName ELSE args.targetName
            path   == "/restfiles/ds/" \o PathEscape(target)
                      \o (IF member THEN "(" \o PathEscape(args.targetMember) \o ")" ELSE "")
            from   == "/restfiles/ds/" \o PathEscape(source)
                      \o (IF member THEN "(" \o PathEscape(args.sourceMember) \o ")" ELSE "")
            dsn    == "\"dsn\":\"" \o source \o "\""
                      \o (IF member THEN ",\"member\":\"" \o args.sourceMember \o "\"" ELSE "")
            verb   == IF op = "RenameDataset" THEN "rename" ELSE "copy"
        IN  /\ Len(events) = 1
            /\ IsTrip(events[1])
            /\ events[1].method = "PUT"
            /\ events[1].url = path
            /\ events[1].body = "{\"from-dataset\":{" \o dsn \o "},\"request\":\"" \o verb \o "\"}"
            /\ (source # target \/ (member /\ args.sourceMember # args.targetMember))
                   => events[1].url # from

\* A member has been copied into another dataset whose name needs escaping
C18_MemberCopiedAcross ==
    /\ op = "CopyMember" /\ pc = "done"
    /\ result.err.nil
    /\ args.sourceName = "A.B" /\ args.targetName = "A#B"
    /\ events[1].url = "/restfiles/ds/A%23B(N)"

\* C19: against a server that stores the body of a successful PUT under the
\* path of the request and returns it on a GET of that path, a DownloadText
\* that succeeds returns the content of the last successful UploadText to the
\* same dataset, and a DownloadTextFromMember that of the last successful
\* UploadTextToMember to the same dataset and member.
C19_DownloadReturnsUploaded ==
    (op \in {"DownloadText", "DownloadTextFromMember"} /\ pc = "done" /\ result.err.nil) =>
        LET key == <<args.datasetName,
                     IF op = "DownloadText" THEN "" ELSE args.memberName>>
        IN  /\ key \in DOMAIN uploaded
            /\ result.val = StrVal(uploaded[key])

\* A member has come back as it was uploaded, after another text had been
\* uploaded to the dataset that holds it
C19_MemberCameBack ==
    /\ op = "DownloadTextFromMember" /\ pc = "done" /\ result.err.nil
    /\ args.memberName = "M"
    /\ result.val = StrVal("//J JOB\n")
    /\ <<args.datasetName, "">> \in DOMAIN uploaded
    /\ uploaded[<<args.datasetName, "">>] = "x"

\* C21: every dataset in the list GetDatasetsByType(datasetType, limit)
\* returns has organization datasetType, whatever the server holds.
C21_OnlyRequestedType ==
    (op = "GetDatasetsByType" /\ pc = "done" /\ result.err.nil) =>
        \A i \in 1..Len(result.val.datasets) : result.val.datasets[i].Type = args.datasetType

\* What GetJob does with a bare id, stated on the round trips it logged: one
\* list request for the id with max-jobs = 100; a failed list is returned
\* with no further request; a list without the id gives 'not found' with no
\* further request; otherwise the first job with the id is fetched again by
\* name and id and the outcome of that fetch is the outcome of GetJob.
BareIdLookup(id, query) ==
    LET list == ListJobsAt("/restjobs/jobs" \o query, events[1].resp)
        hits == IF list.err.nil
                THEN {i \in 1..Len(list.val.jobs) : list.val.jobs[i].JobID = id} ELSE {}
        k    == CHOOSE i \in hits : \A j \in hits : i <= j
    IN  /\ Len(events) >= 1
        /\ events[1].method = "GET"
        /\ events[1].url = "/restjobs/jobs" \o query
        /\ ~list.err.nil =>
               /\ Len(events) = 1
               /\ ~result.err.nil /\ HasSuffix(result.err.text, list.err.text)
        /\ (list.err.nil /\ hits = {}) =>
               /\ Len(events) = 1
               /\ result.err = Errorf("job with ID " \o id \o " not found")
        /\ (list.err.nil /\ hits # {}) =>
               LET job  == list.val.jobs[k]
                   byId == GetJobByNameID(job.JobName, id, events[2].resp)
               IN  /\ Len(events) = 2
                   /\ events[2].method = "GET"
                   /\ events[2].url = "/restjobs/jobs/" \o PathEscape(job.JobName)
                                      \o "/" \o PathEscape(id)
                   /\ result = [err |-> byId.err, val |-> byId.val]

\* C22 as the spec states it: GetJob with any identifier without ':' first
\* sends one list request filtered by jobid = identifier with max-jobs = 100,
\* then re-fetches the first job with exactly that id by name and id, or
\* returns 'job with ID <id> not found', or the failure of the list request,
\* without a second request.
C22_BareIdListsThenRefetches ==
    (op = "GetJob" /\ pc = "done" /\ ~Contains(args.correlator, ":")) =>
        BareIdLookup(args.correlator,
                     "?jobid=" \o QueryEscape(args.correlator) \o "&max-jobs=100")

\* C22, amended: the list request carries jobid = identifier only for a
\* non-empty identifier; for the empty identifier it carries max-jobs = 100
\* alone.  The rest is as stated.
C22_BareIdLookupByQuery ==
    (op = "GetJob" /\ pc = "done" /\ ~Contains(args.correlator, ":")) =>
        BareIdLookup(args.correlator,
                     IF args.correlator = "" THEN "?max-jobs=100"
                     ELSE "?jobid=" \o QueryEscape(args.correlator) \o "&max-jobs=100")

\* GetJob has found two jobs with the id and fetched the first of them again
C22_FirstOfTwoRefetched ==
    /\ op = "GetJob" /\ pc = "done" /\ args.correlator = "1"
    /\ Len(events) = 2
    /\ events[2].url = "/restjobs/jobs/B/1"
    /\ result.err.nil

\* Every call of WaitForJobCompletion eventually returns
WaitAlwaysReturns == (pc = "wait") ~> (pc = "done")

\* WaitForJobCompletion starts no status fetch and no sleep once the elapsed
\* time has exceeded the timeout.  A fetch starts at the clock of the iteration;
\* the sleep of an iteration starts when its fetch has returned, which is
\* pollInterval before the clock at the end of the iteration.
WaitStartsNothingPastTimeout ==
    [][(pc = "wait" /\ Len(events') > Len(events)) =>
          /\ now - local.startTime <= args.timeout
          /\ IsSleep(events'[Len(events')]) =>
                 (now' - args.pollInterval) - local.startTime <= args.timeout
    ]_vars

\* C23: WaitForJobCompletion always terminates and its blocking time is bounded
\* by the caller's timeout: with every status fetch returning and the clock
\* advancing, every call eventually returns, and it starts no status fetch and
\* no sleep once the elapsed time has exceeded the timeout.
C23_TerminatesWithinTimeout == WaitAlwaysReturns /\ WaitStartsNothingPastTimeout

C25_OptionalFieldsOnlyWhenSet ==
    (op = "CreateDataset" /\ pc = "done") =>
        LET request == args.request
            body    == events[1].body
            has(k)  == Contains(body, "\"" \o k \o "\":")
        IN  /\ Len(events) = 1
            /\ events[1].method = "POST"
            /\ events[1].url = "/restfiles/ds/" \o PathEscape(request.Name)
            /\ Contains(body, "\"dsname\":\"" \o request.Name \o "\"")
            /\ Contains(body, "\"dsorg\":\"" \o request.Type \o "\"")
            /\ has("vol") => request.Volume # ""
            /\ has("alcunit") => request.Space.Unit # ""
            /\ has("primary") => request.Space.Primary # 0
            /\ has("secondary") => request.Space.Secondary # 0
            /\ has("dirblk") => (request.Directory # 0 \/ request.Space.Directory # 0)
            /\ has("recfm") => request.RecordFormat # ""
            /\ has("lrecl") => request.RecordLength # 0
            /\ has("blksize") => request.BlockSize # 0

\* C26: UploadTextToMemberWithValidation sends an upload (PUT) only after, in
\* this order, the member name has passed ValidateMemberName, the existence
\* check has found the dataset, the type reported for it is PO or PO-E, and a
\* listing of its members has succeeded; a call that sends no upload returns an
\* error.
C26_UploadOnlyAfterChecks ==
    op = "UploadTextToMemberWithValidation" =>
        LET name == args.datasetName
            puts == {i \in 1..Len(events) : IsTrip(events[i]) /\ events[i].method = "PUT"}
            list == "/restfiles/ds?dslevel=" \o QueryEscape(name)
        IN  /\ puts # {} =>
                  /\ ValidateMemberName(args.memberName).nil
                  /\ \A i \in puts : i >= 5
                  /\ \A i \in 1..4 : IsTrip(events[i]) /\ events[i].method = "GET"
                  /\ events[1].url = list
                  /\ Exists(name, events[1].resp).err.nil
                  /\ Exists(name, events[1].resp).val.b
                  /\ events[2].url = list
                  /\ GetDataset(name, events[2].resp).err.nil
                  /\ GetDataset(name, events[2].resp).val.dataset.Type \in {"PO", "PO-E"}
                  /\ events[3].url = "/restfiles/ds/" \o PathEscape(name) \o "/member"
                  /\ ListMembers(name, events[3].resp).err.nil
            /\ (pc = "done" /\ puts = {}) => ~result.err.nil

\* The upload was sent and succeeded after the four checks, the second member
\* listing having failed
C26_UploadedAfterChecks ==
    /\ op = "UploadTextToMemberWithValidation" /\ pc = "done"
    /\ result.err.nil
    /\ Len(events) = 5
    /\ events[5].method = "PUT"
    /\ events[4].resp.status = 500

\* The statuses that the status fetches of a call delivered, in order: the
\* status of the job in the response to each fetch by name and id
FetchedStatuses(evs) ==
    LET fetches == SelectSeq(evs, LAMBDA ev : IsTrip(ev)
                                  /\ Len(Split(ev.url, "?")) = 1
                                  /\ ev.url # "/restjobs/jobs")
    IN  [i \in 1..Len(fetches) |-> JobFromJSON(fetches[i].resp.body.json).job.Status]

\* C27: whenever WaitForJobCompletion returns without error, the status it
\* returns is the one its most recent status fetch delivered, isJobComplete is
\* true for it and was false for every status fetched earlier in the call; a
\* job that is complete at the first fetch of a call with a positive timeout is
\* reported after exactly one fetch and without any sleep.
C27_ReturnsFirstCompleteStatus ==
    (op = "WaitForJobCompletion" /\ pc = "done" /\ result.err.nil) =>
        LET statuses == FetchedStatuses(events)
            n == Len(statuses)
        IN  /\ n >= 1
            /\ n = local.polls
            /\ result.val = StrVal(statuses[n])
            /\ isJobComplete(statuses[n])
            /\ \A i \in 1..(n - 1) : ~isJobComplete(statuses[i])
            /\ (args.timeout > 0 /\ isJobComplete(statuses[1])) =>
                   /\ n = 1
                   /\ \A i \in 1..Len(events) : ~IsSleep(events[i])

\* A call returned the complete status of its third fetch, after two fetches
\* of a status that is not complete
C27_CompleteAtThirdFetch ==
    /\ op = "WaitForJobCompletion" /\ pc = "done" /\ result.err.nil
    /\ FetchedStatuses(events) = <<"ACTIVE", "ACTIVE", "Abend">>
    /\ result.val = StrVal("Abend")

\* The upload requests of a call, in order
Uploads(evs) == SelectSeq(evs, LAMBDA ev : IsTrip(ev) /\ ev.method = "PUT")

\* C28: uploadWithRetry returns nil if and only if one of its attempts
\* succeeded, and makes no attempt after a successful one; when three attempts
\* failed with retryable errors it returns 'upload failed after 3 attempts: '
\* followed by the error of the third; when an attempt fails with an error
\* that is not retryable it returns exactly the error of that attempt.
C28_RetryOutcome ==
    (op = "UploadTextToMemberWithValidation" /\ Uploads(events) # <<>>) =>
        LET puts == Uploads(events)
            n == Len(puts)
            request == UploadRequest(args.datasetName, args.memberName, args.content,
                                     "UTF-8", TRUE)
            err(i) == UploadContent(request, puts[i].resp).err
            ok(i) == puts[i].resp.neterr = "" /\ puts[i].resp.status \in {200, 201, 204}
            retryable(i) == \E sub \in {"isrz002", "i/o error", "lmfind error", "directory",
                                        "timeout", "connection"} :
                                Contains(ToLower(err(i).text), sub)
        IN  /\ \A i \in 1..(n - 1) : ~ok(i) /\ retryable(i)
            /\ n <= 3
            /\ pc = "done" =>
                   /\ local.err.nil = ok(n)
                   /\ (~ok(n) /\ ~retryable(n)) => local.err = err(n)
                   /\ (~ok(n) /\ retryable(n)) =>
                          /\ n = 3
                          /\ local.err = Errorf("upload failed after 3 attempts: "
                                                \o err(3).text)

\* uploadWithRetry gave up after three retryable failures of which the third
\* differs from the first
C28_GaveUpWithThirdError ==
    /\ op = "UploadTextToMemberWithValidation" /\ pc = "done"
    /\ Len(Uploads(events)) = 3
    /\ Uploads(events)[1].resp.status = 507
    /\ local.err.text = "upload failed after 3 attempts: API request failed with status 504: Gateway Timeout"

\* C29: UploadTextToMember, and UploadContent for a member, send exactly one
\* upload request per call and never retry, whatever the text of the failure;
\* only UploadTextToMemberWithValidation sends an upload more than once.
C29_ExactlyOneUpload ==
    /\ (pc = "done" /\ (\/ op = "UploadTextToMember"
                        \/ op = "UploadContent" /\ args.request.MemberName # "")) =>
           /\ Len(events) = 1
           /\ events[1].method = "PUT"
    /\ Len(Uploads(events)) > 1 => op = "UploadTextToMemberWithValidation"

\* C29, amended: UploadTextToMember sends no request for a member name that
\* ValidateMemberName rejects; for any other it sends exactly one upload, as
\* UploadContent does for a member, and neither retries, whatever the text of
\* the failure; only UploadTextToMemberWithValidation sends an upload more than
\* once.
C29_PlainUploadsNeverRetry ==
    /\ (pc = "done" /\ op = "UploadTextToMember") =>
           IF ValidateMemberName(args.memberName).nil
           THEN Len(events) = 1 /\ events[1].method = "PUT"
           ELSE events = <<>> /\ ~result.err.nil
    /\ (pc = "done" /\ op = "UploadContent" /\ args.request.MemberName # "") =>
           /\ Len(events) = 1
           /\ events[1].method = "PUT"
    /\ Len(Uploads(events)) > 1 => op = "UploadTextToMemberWithValidation"

\* UploadTextToMember has failed with a connection error, a retryable text,
\* after a single request
C29_ConnectionErrorNotRetried ==
    /\ op = "UploadTextToMember" /\ pc = "done"
    /\ Contains(result.err.text, "connection refused")
    /\ Len(events) = 1

\* C30: every name that datasets.ValidateDatasetName accepts is accepted by
\* jobs.isValidDatasetName; put the other way, a name isValidDatasetName
\* rejects is rejected by ValidateDatasetName.
C30_DatasetsAcceptedImpliesJobsAccepted ==
    /\ (op = "ValidateDatasetName" /\ pc = "done" /\ result.err.nil) =>
           isValidDatasetName(args.name)
    /\ (op = "isValidDatasetName" /\ pc = "done" /\ ~result.val.b) =>
           ~ValidateDatasetName(args.dataset).nil

\* ValidateDatasetName has accepted a name with special characters and a
\* hyphen, which isValidDatasetName accepts as well
C30_SpecialCharactersAcceptedByBoth ==
    /\ op = "ValidateDatasetName" /\ pc = "done"
    /\ args.name = "$-1"
    /\ result.err.nil
    /\ isValidDatasetName(args.name)

====
